---- MODULE Spec2Model ----
(***************************************************************************)
(* A model of the execution core of mini_query_engine: the columnar        *)
(* RecordBatch, and the HashJoin, Aggregate, Filter and Sort operators.    *)
(*                                                                         *)
(* Conventions.                                                            *)
(*  - Option<T>: None is <<>>, Some(v) is <<v>>.                           *)
(*  - Result<T, String>: [ok |-> TRUE, val |-> v] or                       *)
(*    [ok |-> FALSE, val |-> message].                                     *)
(*  - An Arrow array is a sequence of cells, each cell an Option (a null   *)
(*    slot is None).  The array's data type is carried by the schema       *)
(*    field at the same position.                                          *)
(*  - Rows and columns are numbered from 1 (the source numbers from 0).    *)
(*  - Each operator has its own specification (SpecJoin, SpecAgg, ...);    *)
(*    the variables of the other operators stay at Idle.                   *)
(***************************************************************************)
EXTENDS Integers, Sequences, FiniteSets, TLC

VARIABLES
    pc,             \* position of the driver of the operator under study
    left_batches,   \* execute_join: left input
    right_batches,  \* execute_join: right input
    join_op,        \* the HashJoinOperator (left_key, right_key, join_type, schema)
    join_pairs,     \* execute_join locals: the (left_indices, right_indices) tuples
    join_result,    \* execute_join: Result<Vec<RecordBatch>, String>
    agg_plan,       \* the Aggregate node (group_by, aggs) and its child's schema
    agg_inputs,     \* aggregate: the input batches (the child's output)
    agg_op,         \* the AggregateOperator (group_by, aggs, schema), once built
    agg_groups,     \* hash_aggregate's map, as its entries in iteration order
    agg_result,     \* Result<Vec<RecordBatch>, String> of the aggregation
    agg_via,        \* who ran it: AggregateOperator::execute_many or Executor::execute
    filter_input,   \* FilterOperator::execute: the input batch
    filter_op,      \* the FilterOperator (predicate, schema)
    filter_result,  \* FilterOperator::execute: Result<RecordBatch, String>
    sort_inputs,    \* SortOperator::execute_many: the input batches
    sort_op,        \* the SortOperator (order_by, schema)
    sort_result,    \* SortOperator::execute_many: Result<Vec<RecordBatch>, String>
    pq_file,        \* the Parquet file: its schema and its row groups
    pq_scan,        \* the ScanOperator (projection, schema, config), or the reader's config
    pq_tasks,       \* read_all_parallel: one worker task per row group
    pq_completed,   \* read_all_parallel: the row groups in the order their tasks finished
    pq_result,      \* read_all: Result<Vec<RecordBatch>, String>
    bt_batch,       \* RecordBatch: the batch the last operation was applied to
    bt_call,        \* RecordBatch: the last operation and its arguments
    bt_result,      \* RecordBatch: Result<RecordBatch, String> of the last operation
    bt_types,       \* RecordBatch: the data types of the arrays of the batch in bt_result
    proj_input,     \* ProjectOperator::execute: the input batch
    proj_op,        \* the ProjectOperator (column_names, column_indices, schema)
    proj_result,    \* ProjectOperator::execute: Result<RecordBatch, String>
    ex_plan,        \* Executor::execute: the logical plan and the tables it reads
    ex_frames,      \* Executor::execute: the results of the plan's nodes in this run
    ex_runs,        \* the results of the finished executions of the plan
    ex_calls        \* the calls of execute that returned in this execution, in order

joinVars == <<left_batches, right_batches, join_op, join_pairs, join_result>>
aggVars == <<agg_plan, agg_inputs, agg_op, agg_groups, agg_result, agg_via>>
filterVars == <<filter_input, filter_op, filter_result>>
sortVars == <<sort_inputs, sort_op, sort_result>>
parquetVars == <<pq_file, pq_scan, pq_tasks, pq_completed, pq_result>>
batchVars == <<bt_batch, bt_call, bt_result, bt_types>>
projVars == <<proj_input, proj_op, proj_result>>
execVars == <<ex_plan, ex_frames, ex_runs, ex_calls>>
vars == <<pc, joinVars, aggVars, filterVars, sortVars, parquetVars, batchVars, projVars, execVars>>

Idle == <<>>

\* the components that take no part in a behaviour stay idle
ParquetIdle ==
    pq_file = Idle /\ pq_scan = Idle /\ pq_tasks = Idle /\ pq_completed = Idle /\ pq_result = Idle
BatchIdle == bt_batch = Idle /\ bt_call = Idle /\ bt_result = Idle /\ bt_types = Idle
ProjectIdle == proj_input = Idle /\ proj_op = Idle /\ proj_result = Idle
ExecIdle == ex_plan = Idle /\ ex_frames = Idle /\ ex_runs = Idle /\ ex_calls = Idle

\* ------------------------------------------------------------------ bounds

MaxLeftRows == 2
MaxRightRows == 2
MaxAggRows == 2
MaxFilterRows == 2
MaxSortRows == 2
MaxRowGroups == 2
MaxGroupRows == 2
MaxBatchRows == 2
MaxProjectRows == 2
MaxExecRows == 3

\* ------------------------------------------------------- Option and Result

None == <<>>
Some(v) == <<v>>
IsNone(o) == o = <<>>
IsSome(o) == o # <<>>
Unwrap(o) == o[1]

Ok(v) == [ok |-> TRUE, val |-> v]
Err(msg) == [ok |-> FALSE, val |-> msg]

\* ------------------------------------------------------------ small helpers

Range(s) == {s[i] : i \in DOMAIN s}

RECURSIVE SumSeq(_)
SumSeq(s) == IF s = <<>> THEN 0 ELSE s[1] + SumSeq(Tail(s))

RECURSIVE Flatten(_)
Flatten(ss) == IF ss = <<>> THEN <<>> ELSE ss[1] \o Flatten(Tail(ss))

\* All sequences over S of length 0..n
SeqsUpTo(S, n) == UNION {[1..k -> S] : k \in 0..n}

\* Number of positions of s that hold x
CountIn(s, x) == Cardinality({i \in DOMAIN s : s[i] = x})

\* Two sequences hold the same elements with the same multiplicities
SameBag(s, t) ==
    /\ Len(s) = Len(t)
    /\ \A x \in Range(s) \cup Range(t) : CountIn(s, x) = CountIn(t, x)

\* ------------------------------------------------ formatting ({} of format!)

DigitChars == <<"0", "1", "2", "3", "4", "5", "6", "7", "8", "9">>

RECURSIVE FmtNat(_)
FmtNat(n) == IF n < 10 THEN DigitChars[n + 1]
             ELSE FmtNat(n \div 10) \o DigitChars[(n % 10) + 1]

\* Display of a signed integer
FmtInt(n) == IF n < 0 THEN "-" \o FmtNat(0 - n) ELSE FmtNat(n)

\* Display of a bool
FmtBool(b) == IF b THEN "true" ELSE "false"

\* ---------------------------------------------------------------------- f64
\* An f64 is a record: a finite value n/d (the inputs are integers, d = 1; a
\* quotient by a count may have d > 1), an infinity of sign n, or NaN.

Fin(n) == [k |-> "fin", n |-> n, d |-> 1]
PosInf == [k |-> "inf", n |-> 1, d |-> 1]
NegInf == [k |-> "inf", n |-> -1, d |-> 1]
NaN == [k |-> "nan", n |-> 0, d |-> 1]

\* f64::is_finite
is_finite(a) == a.k = "fin"

\* a + b
FAdd(a, b) ==
    CASE a.k = "nan" \/ b.k = "nan" -> NaN
      [] a.k = "inf" /\ b.k = "inf" -> IF a.n = b.n THEN a ELSE NaN
      [] a.k = "inf" -> a
      [] b.k = "inf" -> b
      [] OTHER -> [k |-> "fin", n |-> a.n * b.d + b.n * a.d, d |-> a.d * b.d]

\* a < b (false when either is NaN)
FLt(a, b) ==
    CASE a.k = "nan" \/ b.k = "nan" -> FALSE
      [] a.k = "inf" /\ b.k = "inf" -> a.n < b.n
      [] a.k = "inf" -> a.n < 0
      [] b.k = "inf" -> b.n > 0
      [] OTHER -> a.n * b.d < b.n * a.d

RECURSIVE Gcd(_, _)
Gcd(a, b) == IF b = 0 THEN a ELSE Gcd(b, a % b)
Abs(n) == IF n < 0 THEN 0 - n ELSE n

\* sum / (count as f64), count > 0, as the reduced fraction
FDivCount(a, count) ==
    IF a.k # "fin" THEN a
    ELSE LET g == Gcd(Abs(a.n), a.d * count)
         IN [k |-> "fin", n |-> a.n \div g, d |-> (a.d * count) \div g]

\* Display of an f64 with an integer value
FmtF64(a) ==
    CASE a.k = "nan" -> "NaN"
      [] a.k = "inf" -> IF a.n > 0 THEN "inf" ELSE "-inf"
      [] OTHER -> FmtInt(a.n)

\* ------------------------------------------------------------- RecordBatch

Field(name, dtype, nullable) == [name |-> name, dtype |-> dtype, nullable |-> nullable]

SupportedDTypes == {"Int32", "Int64", "Float64", "Utf8", "Boolean"}

\* a try_new that does not compare the column lengths
try_new_any_length(schema, columns) ==
    IF Len(schema) # Len(columns)
    THEN Err("Schema has N fields but M columns provided")
    ELSE Ok([schema |-> schema, columns |-> columns,
             num_rows |-> IF columns = <<>> THEN 0 ELSE Len(columns[1])])

\* RecordBatch::try_new: the column count must equal the field count and all
\* columns must have the length of the first one.  The dtypes are not compared.
try_new(schema, columns) ==
    IF Len(schema) # Len(columns)
    THEN Err("Schema has N fields but M columns provided")
    ELSE LET num_rows == IF columns = <<>> THEN 0 ELSE Len(columns[1])
         IN IF \E idx \in DOMAIN columns : Len(columns[idx]) # num_rows
            THEN Err("Column has unexpected length")
            ELSE Ok([schema |-> schema, columns |-> columns, num_rows |-> num_rows])

\* position of the first field called name, 0 when there is none
FieldIndex(schema, name) ==
    LET hits == {i \in DOMAIN schema : schema[i].name = name}
    IN IF hits = {} THEN 0 ELSE CHOOSE i \in hits : \A j \in hits : i <= j

\* RecordBatch::column_by_name, as the column's index (0 for None)
column_by_name(batch, name) == FieldIndex(batch.schema, name)

is_empty(batch) == batch.num_rows = 0

\* the cells of row r, one per column
Row(batch, r) == [c \in DOMAIN batch.columns |-> batch.columns[c][r]]

\* the rows of a batch, in order
Rows(batch) == [r \in 1..batch.num_rows |-> Row(batch, r)]

\* the rows of a list of batches, in list order
AllRows(batches) == Flatten([i \in DOMAIN batches |-> Rows(batches[i])])

\* RecordBatch::concat
concat(batches) ==
    IF batches = <<>> THEN Err("Cannot concatenate empty batch list")
    ELSE LET first_schema == batches[1].schema
         IN IF \E idx \in 2..Len(batches) : batches[idx].schema # first_schema
            THEN Err("Batch has different schema than first batch")
            ELSE try_new(first_schema,
                         [col_idx \in DOMAIN first_schema |->
                            Flatten([b \in DOMAIN batches |-> batches[b].columns[col_idx]])])

\* A batch built from a schema and a sequence of rows
BatchOfRows(schema, rows) ==
    [schema |-> schema,
     columns |-> [c \in DOMAIN schema |-> [r \in DOMAIN rows |-> rows[r][c]]],
     num_rows |-> Len(rows)]

\* The ways a list of rows arrives as a list of batches: no batch at all (only
\* when there is no row), one batch, or two batches cut at any position.
Splits(schema, rows) ==
    (IF rows = <<>> THEN {<<>>} ELSE {})
    \cup {<<BatchOfRows(schema, rows)>>}
    \cup {<<BatchOfRows(schema, SubSeq(rows, 1, c)),
            BatchOfRows(schema, SubSeq(rows, c + 1, Len(rows)))>> : c \in 0..Len(rows)}

\* ----------------------------------------------------------------- HashJoin

\* HashJoinOperator::new
HashJoinOperator_new(left_key, right_key, join_type, left_schema, right_schema) ==
    Ok([left_key |-> left_key, right_key |-> right_key, join_type |-> join_type,
        schema |-> left_schema \o right_schema])

\* key_string of a non-null value of a supported type
key_string_value(dtype, v) ==
    CASE dtype = "Int32" -> "i32:" \o FmtInt(v)
      [] dtype = "Int64" -> "i64:" \o FmtInt(v)
      [] dtype = "Utf8" -> "str:" \o v
      [] dtype = "Boolean" -> "bool:" \o FmtBool(v)
      [] OTHER -> "f64:" \o FmtF64(v)

\* key_string: the hash key of the cell, a null cell included
key_string(dtype, cell) ==
    IF IsNone(cell) THEN "__NULL__" ELSE key_string_value(dtype, Unwrap(cell))

\* key_string fails on a non-null cell of an unsupported type
key_string_fails(dtype, cell) == IsSome(cell) /\ dtype \notin SupportedDTypes

\* Build phase: the map key -> right row indices, rows visited in order
RECURSIVE build_map(_, _, _, _)
build_map(dtype, right_col, row, map) ==
    IF row > Len(right_col) THEN map
    ELSE LET k == key_string(dtype, right_col[row])
         IN build_map(dtype, right_col, row + 1,
                      IF k \in DOMAIN map
                      THEN [map EXCEPT ![k] = Append(@, row)]
                      ELSE map @@ (k :> <<row>>))

\* a probe that emits the tuples of the last left row first
RECURSIVE probe_last_row_first(_, _, _, _, _)
probe_last_row_first(dtype, left_col, lr, map, join_type) ==
    IF lr > Len(left_col) THEN <<>>
    ELSE LET k == key_string(dtype, left_col[lr])
             here == IF k \in DOMAIN map
                     THEN [i \in DOMAIN map[k] |-> <<lr, Some(map[k][i])>>]
                     ELSE IF join_type = "Left" THEN << <<lr, None>> >> ELSE <<>>
         IN probe_last_row_first(dtype, left_col, lr + 1, map, join_type) \o here

\* Probe phase: the output tuples <<lr, Option<rr>>>, left rows visited in order
RECURSIVE probe(_, _, _, _, _)
probe(dtype, left_col, lr, map, join_type) ==
    IF lr > Len(left_col) THEN <<>>
    ELSE LET k == key_string(dtype, left_col[lr])
             here == IF k \in DOMAIN map
                     THEN [i \in DOMAIN map[k] |-> <<lr, Some(map[k][i])>>]
                     ELSE IF join_type = "Left" THEN << <<lr, None>> >> ELSE <<>>
         IN here \o probe(dtype, left_col, lr + 1, map, join_type)

\* arrow_select::take::take
take(col, indices) == [k \in DOMAIN indices |-> col[indices[k]]]

\* build_with_nulls: None gives a null, Some(i) the cell i of base
build_with_nulls(base, indices) ==
    [k \in DOMAIN indices |-> IF IsNone(indices[k]) THEN None ELSE base[Unwrap(indices[k])]]

\* new_null_array
new_null_array(len) == [k \in 1..len |-> None]

\* HashJoinOperator::left_only_result
left_only_result(op, left) ==
    LET num_left == Len(left.schema)
        cols == left.columns \o
                [i \in 1..(Len(op.schema) - num_left) |-> new_null_array(left.num_rows)]
        batch == try_new(op.schema, cols)
    IN IF batch.ok THEN Ok(<<batch.val>>) ELSE batch

\* one input side as a single batch
one_batch(batches) == IF Len(batches) = 1 THEN Ok(batches[1]) ELSE concat(batches)

\* The probe's output tuples for two concatenated sides (<<>> when a key is missing)
join_tuples(op, left, right) ==
    LET ri == column_by_name(right, op.right_key)
        li == column_by_name(left, op.left_key)
    IN IF ri = 0 \/ li = 0 THEN <<>>
       ELSE probe(left.schema[li].dtype, left.columns[li], 1,
                  build_map(right.schema[ri].dtype, right.columns[ri], 1, <<>>),
                  op.join_type)

\* HashJoinOperator::execute_join, after both sides are single batches
hash_join(op, left, right) ==
    LET ri == column_by_name(right, op.right_key)
        li == column_by_name(left, op.left_key)
    IN IF ri = 0 THEN Err("Right key not found")
       ELSE IF \E r \in 1..right.num_rows :
                 key_string_fails(right.schema[ri].dtype, right.columns[ri][r])
       THEN Err("Unsupported join key type")
       ELSE IF li = 0 THEN Err("Left key not found")
       ELSE IF \E r \in 1..left.num_rows :
                 key_string_fails(left.schema[li].dtype, left.columns[li][r])
       THEN Err("Unsupported join key type")
       ELSE LET tuples == join_tuples(op, left, right)
                left_indices == [k \in DOMAIN tuples |-> tuples[k][1]]
                right_indices == [k \in DOMAIN tuples |-> tuples[k][2]]
            IN IF left_indices = <<>> THEN Ok(<<>>)
               ELSE LET left_cols == [c \in DOMAIN left.columns |->
                                        take(left.columns[c], left_indices)]
                        right_cols == [c \in DOMAIN right.columns |->
                                        build_with_nulls(right.columns[c], right_indices)]
                        out == try_new(op.schema, left_cols \o right_cols)
                    IN IF out.ok THEN Ok(<<out.val>>) ELSE out

\* HashJoinOperator::execute_join
execute_join(op, lbs, rbs) ==
    IF lbs = <<>> THEN Ok(<<>>)
    ELSE LET left == one_batch(lbs)
         IN IF ~left.ok THEN left
            ELSE IF rbs = <<>>
            THEN (IF op.join_type = "Left" THEN left_only_result(op, left.val) ELSE Ok(<<>>))
            ELSE LET right == one_batch(rbs)
                 IN IF ~right.ok THEN right ELSE hash_join(op, left.val, right.val)

\* the tuples execute_join emits (its locals left_indices and right_indices)
execute_join_tuples(op, lbs, rbs) ==
    IF lbs = <<>> \/ rbs = <<>> THEN <<>>
    ELSE LET left == one_batch(lbs)
             right == one_batch(rbs)
         IN IF left.ok /\ right.ok THEN join_tuples(op, left.val, right.val) ELSE <<>>

\* ------------------------------------------------------ HashJoin: the inputs

LeftSchema == <<Field("id", "Int32", FALSE), Field("lk", "Int32", TRUE)>>
RightSchema == <<Field("rk", "Int32", TRUE), Field("rv", "Int32", FALSE)>>

LeftKeyCells == {None, Some(1), Some(2)}
RightKeyCells == {None, Some(1)}

\* left rows: a row id and a key; right rows: a key and a payload
LeftRowLists ==
    {[r \in DOMAIN ks |-> <<Some(r), ks[r]>>] : ks \in SeqsUpTo(LeftKeyCells, MaxLeftRows)}
RightRowLists ==
    {[r \in DOMAIN ks |-> <<ks[r], Some(10 * r)>>] : ks \in SeqsUpTo(RightKeyCells, MaxRightRows)}

JoinTypes == {"Inner", "Left"}

\* the join keys: the key columns of the two sides, or a name one side lacks
JoinKeys == {<<"lk", "rk">>, <<"zz", "rk">>, <<"lk", "zz">>}

InitJoinOn(keys) ==
    /\ pc = "start"
    /\ \E rows \in LeftRowLists : left_batches \in Splits(LeftSchema, rows)
    /\ \E rows \in RightRowLists : right_batches \in Splits(RightSchema, rows)
    /\ join_op \in {[join_type |-> jt, left_key |-> on[1], right_key |-> on[2]] :
                        jt \in JoinTypes, on \in keys}
    /\ join_pairs = Idle
    /\ join_result = Idle
    /\ agg_plan = Idle /\ agg_inputs = Idle /\ agg_op = Idle /\ agg_groups = Idle
    /\ agg_result = Idle /\ agg_via = Idle
    /\ filter_input = Idle /\ filter_op = Idle /\ filter_result = Idle
    /\ sort_inputs = Idle /\ sort_op = Idle /\ sort_result = Idle
    /\ ParquetIdle /\ BatchIdle /\ ProjectIdle /\ ExecIdle

\* a join on the key columns of the two sides
InitJoin == InitJoinOn({<<"lk", "rk">>})

\* a join on any of the keys, the unknown names included
InitJoinAnyKey == InitJoinOn(JoinKeys)

\* The caller builds the operator from the schemas of the two sides
JoinNew ==
    /\ pc = "start"
    /\ join_op' = HashJoinOperator_new(join_op.left_key, join_op.right_key,
                                       join_op.join_type, LeftSchema, RightSchema).val
    /\ pc' = "built"
    /\ UNCHANGED <<left_batches, right_batches, join_pairs, join_result, aggVars, filterVars, sortVars,
                 parquetVars, batchVars, projVars, execVars>>

ExecuteJoin ==
    /\ pc = "built"
    /\ join_result' = execute_join(join_op, left_batches, right_batches)
    /\ join_pairs' = execute_join_tuples(join_op, left_batches, right_batches)
    /\ pc' = "done"
    /\ UNCHANGED <<left_batches, right_batches, join_op, aggVars, filterVars, sortVars,
                 parquetVars, batchVars, projVars, execVars>>

NextJoin == JoinNew \/ ExecuteJoin

SpecJoin == InitJoin /\ [][NextJoin]_vars

SpecJoinAnyKey == InitJoinAnyKey /\ [][NextJoin]_vars

\* ------------------------------------------------------ HashJoin: the claims

JoinL == AllRows(left_batches)
JoinR == AllRows(right_batches)
JoinDone == pc = "done"
JoinBothSides == left_batches # <<>> /\ right_batches # <<>>

\* the rows of the batches a Result holds (none for an error)
ResultRows(res) == IF res.ok THEN AllRows(res.val) ELSE <<>>

\* SQL equality of two key cells: equal values, neither null
KeysMatch(lcell, rcell) == IsSome(lcell) /\ IsSome(rcell) /\ lcell = rcell

\* the pairs (lr, rr) of the two inputs whose keys are equal and non-null
MatchingPairs == {p \in (DOMAIN JoinL) \X (DOMAIN JoinR) :
                    KeysMatch(JoinL[p[1]][2], JoinR[p[2]][1])}
UnmatchedLeft == {lr \in DOMAIN JoinL : ~\E rr \in DOMAIN JoinR : <<lr, rr>> \in MatchingPairs}
NullRight == [c \in DOMAIN RightSchema |-> None]

\* C1: with non-empty left and right inputs, the join output holds exactly one
\* row per pair (lr, rr) of equal non-null keys, for Left also exactly one
\* null-extended row per left row without a match, and no other row; each
\* output row is row lr of the left input followed by row rr of the right input.
C1_JoinEmitsExactlyMatchingPairs ==
    (JoinDone /\ JoinBothSides) =>
        LET out == ResultRows(join_result)
        IN /\ join_result.ok
           /\ \A p \in MatchingPairs : CountIn(out, JoinL[p[1]] \o JoinR[p[2]]) = 1
           /\ join_op.join_type = "Left" =>
                \A lr \in UnmatchedLeft : CountIn(out, JoinL[lr] \o NullRight) = 1
           /\ Len(out) = Cardinality(MatchingPairs)
                         + (IF join_op.join_type = "Left" THEN Cardinality(UnmatchedLeft) ELSE 0)
           /\ Len(join_pairs) = Len(out)
           /\ \A k \in DOMAIN out :
                out[k] = JoinL[join_pairs[k][1]]
                         \o (IF IsNone(join_pairs[k][2]) THEN NullRight
                             ELSE JoinR[Unwrap(join_pairs[k][2])])

\* the output rows that come from left row lr (column 1 is the left row's id)
OutRowsOf(lr) == {k \in DOMAIN ResultRows(join_result) :
                    ResultRows(join_result)[k][1] = Some(lr)}

\* C2: a left row whose key is null is paired with no right row: under Inner it
\* gives no output row, under Left exactly one output row with null right columns.
C2_NullKeysNeverMatch ==
    (JoinDone /\ left_batches # <<>>) =>
        \A lr \in DOMAIN JoinL :
            IsNone(JoinL[lr][2]) =>
                IF join_op.join_type = "Inner" THEN OutRowsOf(lr) = {}
                ELSE /\ Cardinality(OutRowsOf(lr)) = 1
                     /\ \A k \in OutRowsOf(lr) :
                          SubSeq(ResultRows(join_result)[k], Len(LeftSchema) + 1,
                                 Len(LeftSchema) + Len(RightSchema)) = NullRight

\* ---------------------------------------------------------------- Aggregate

\* Aggregation {function, column, alias}
Aggregation(function, column, alias) ==
    [function |-> function, column |-> column, alias |-> alias]

\* GroupValue: <<"Null">> or <<tag, value>>
GroupNull == <<"Null">>

\* extract_group_value, for a supported dtype
extract_group_value(dtype, cell) ==
    IF IsNone(cell) THEN GroupNull
    ELSE CASE dtype = "Int32" -> <<"I32", Unwrap(cell)>>
           [] dtype = "Int64" -> <<"I64", Unwrap(cell)>>
           [] dtype = "Float64" -> <<"F64", Unwrap(cell)>>
           [] dtype = "Utf8" -> <<"Str", Unwrap(cell)>>
           [] OTHER -> <<"Bool", Unwrap(cell)>>

\* GroupValue::to_key_string
to_key_string(gv) ==
    CASE gv[1] = "I32" -> "i32:" \o FmtInt(gv[2])
      [] gv[1] = "I64" -> "i64:" \o FmtInt(gv[2])
      [] gv[1] = "F64" -> "f64:" \o FmtF64(gv[2])
      [] gv[1] = "Str" -> "str:" \o gv[2]
      [] gv[1] = "Bool" -> "bool:" \o FmtBool(gv[2])
      [] OTHER -> "null"

\* parts.join(sep)
RECURSIVE JoinStr(_, _)
JoinStr(parts, sep) ==
    IF parts = <<>> THEN ""
    ELSE IF Len(parts) = 1 THEN parts[1]
    ELSE parts[1] \o sep \o JoinStr(Tail(parts), sep)

\* AggregateOperator::get_group_values (the group columns exist)
get_group_values(op, batch, row) ==
    [g \in DOMAIN op.group_by |->
        LET c == column_by_name(batch, op.group_by[g])
        IN extract_group_value(batch.schema[c].dtype, batch.columns[c][row])]

\* AggregateOperator::get_group_key (the group columns exist)
get_group_key(op, batch, row) ==
    LET vals == get_group_values(op, batch, row)
    IN JoinStr([g \in DOMAIN vals |-> to_key_string(vals[g])], "|")

\* get_group_key fails: a group column is absent from the batch, or holds a
\* non-null cell of an unsupported type
group_key_fails(op, batch, row) ==
    \E g \in DOMAIN op.group_by :
        LET c == column_by_name(batch, op.group_by[g])
        IN \/ c = 0
           \/ /\ IsSome(batch.columns[c][row])
              /\ batch.schema[c].dtype \notin SupportedDTypes

\* extract_numeric
extract_numeric(dtype, cell) ==
    IF IsNone(cell) THEN None
    ELSE CASE dtype = "Int32" -> Some(Fin(Unwrap(cell)))
           [] dtype = "Int64" -> Some(Fin(Unwrap(cell)))
           [] dtype = "Float64" -> Some(Unwrap(cell))
           [] OTHER -> None

\* AggregateOperator::get_agg_value
get_agg_value(batch, agg, row) ==
    IF IsNone(agg.column) THEN None
    ELSE LET c == column_by_name(batch, Unwrap(agg.column))
         IN IF c = 0 THEN None
            ELSE extract_numeric(batch.schema[c].dtype, batch.columns[c][row])

\* AggregateOperator::initial_states
initial_state(agg) ==
    CASE agg.function = "Count" -> [fn |-> "Count", c |-> 0]
      [] agg.function = "Sum" -> [fn |-> "Sum", s |-> Fin(0)]
      [] agg.function = "Avg" -> [fn |-> "Avg", sum |-> Fin(0), count |-> 0]
      [] agg.function = "Min" -> [fn |-> "Min", m |-> PosInf]
      [] OTHER -> [fn |-> "Max", m |-> NegInf]

initial_states(op) == [i \in DOMAIN op.aggs |-> initial_state(op.aggs[i])]

\* a Count that treats COUNT(*) like COUNT(col)
count_increment_by_value(batch, agg, row) ==
    IF IsSome(get_agg_value(batch, agg, row)) THEN 1 ELSE 0

\* hash_aggregate, the Count arm: what the row adds to the counter
count_increment(batch, agg, row) ==
    IF IsNone(agg.column) THEN 1
    ELSE IF IsSome(get_agg_value(batch, agg, row)) THEN 1 ELSE 0

\* hash_aggregate, the match on agg.function: the state after the row
update_state(state, batch, agg, row) ==
    LET v == get_agg_value(batch, agg, row)
    IN CASE agg.function = "Count" ->
              [state EXCEPT !.c = @ + count_increment(batch, agg, row)]
         [] agg.function = "Sum" ->
              IF IsSome(v) THEN [state EXCEPT !.s = FAdd(@, Unwrap(v))] ELSE state
         [] agg.function = "Avg" ->
              IF IsSome(v)
              THEN [state EXCEPT !.sum = FAdd(@, Unwrap(v)), !.count = @ + 1]
              ELSE state
         [] agg.function = "Min" ->
              IF IsSome(v) /\ FLt(Unwrap(v), state.m) THEN [state EXCEPT !.m = Unwrap(v)]
              ELSE state
         [] OTHER ->
              IF IsSome(v) /\ FLt(state.m, Unwrap(v)) THEN [state EXCEPT !.m = Unwrap(v)]
              ELSE state

\* hash_aggregate, the loop over the rows of one batch
RECURSIVE aggregate_rows(_, _, _, _)
aggregate_rows(op, batch, row, map) ==
    IF row > batch.num_rows THEN map
    ELSE LET key == get_group_key(op, batch, row)
             entry == IF key \in DOMAIN map THEN map[key]
                      ELSE [vals |-> get_group_values(op, batch, row),
                            states |-> initial_states(op)]
             after == [entry EXCEPT !.states =
                         [i \in DOMAIN op.aggs |->
                            update_state(entry.states[i], batch, op.aggs[i], row)]]
         IN aggregate_rows(op, batch, row + 1,
                           IF key \in DOMAIN map THEN [map EXCEPT ![key] = after]
                           ELSE map @@ (key :> after))

\* hash_aggregate, the loop over the batches
RECURSIVE aggregate_batches(_, _, _, _)
aggregate_batches(op, inputs, i, map) ==
    IF i > Len(inputs) THEN map
    ELSE aggregate_batches(op, inputs, i + 1, aggregate_rows(op, inputs[i], 1, map))

\* the map hash_aggregate hands to build_output_batch
aggregate_map(op, inputs) == aggregate_batches(op, inputs, 1, <<>>)

\* hash_aggregate returns an error before it builds any output
aggregate_fails(op, inputs) ==
    \E i \in DOMAIN inputs : \E row \in 1..inputs[i].num_rows :
        group_key_fails(op, inputs[i], row)

\* collect_group_column: the array type follows the first value; a value of
\* another variant becomes null, and a first value Null makes every slot null
collect_group_column(vec) ==
    LET first == vec[1]
    IN IF first = GroupNull THEN new_null_array(Len(vec))
       ELSE [k \in DOMAIN vec |->
               IF vec[k][1] = first[1] THEN Some(vec[k][2]) ELSE None]

\* collect_agg_column
collect_agg_column(agg, vec) ==
    [k \in DOMAIN vec |->
        LET s == vec[k]
        IN CASE agg.function = "Count" -> Some(s.c)
             [] agg.function = "Sum" -> Some(s.s)
             [] agg.function = "Avg" ->
                  IF s.count > 0 THEN Some(FDivCount(s.sum, s.count)) ELSE None
             [] OTHER -> IF is_finite(s.m) THEN Some(s.m) ELSE None]

\* HashMap::values: the entries of the map in the iteration order `order`
map_values(map, order) == [k \in DOMAIN order |-> map[order[k]]]

\* the iteration orders a HashMap with these keys can have
IterationOrders(keys) ==
    {o \in [1..Cardinality(keys) -> keys] : \A i, j \in DOMAIN o : i # j => o[i] # o[j]}

\* an output batch whose aggregate columns are collected by a traversal that
\* visits the groups in the opposite order
build_output_batch_two_orders(op, entries) ==
    IF entries = <<>>
    THEN try_new(op.schema, [f \in DOMAIN op.schema |-> <<>>])
    ELSE try_new(op.schema,
                 [g \in DOMAIN op.group_by |->
                    collect_group_column([k \in DOMAIN entries |-> entries[k].vals[g]])]
                 \o [a \in DOMAIN op.aggs |->
                    collect_agg_column(op.aggs[a],
                                       [k \in DOMAIN entries |->
                                          entries[Len(entries) + 1 - k].states[a]])])

\* AggregateOperator::build_output_batch over the entries in iteration order:
\* the map is owned and not modified, so each map.values() traversal visits
\* the entries in the same order
build_output_batch(op, entries) ==
    IF entries = <<>>
    THEN try_new(op.schema, [f \in DOMAIN op.schema |-> <<>>])
    ELSE try_new(op.schema,
                 [g \in DOMAIN op.group_by |->
                    collect_group_column([k \in DOMAIN entries |-> entries[k].vals[g]])]
                 \o [a \in DOMAIN op.aggs |->
                    collect_agg_column(op.aggs[a],
                                       [k \in DOMAIN entries |-> entries[k].states[a]])])

\* the dtype of an aggregate's output column
agg_data_type(agg) == IF agg.function = "Count" THEN "Int64" ELSE "Float64"

\* AggregateOperator::new
AggregateOperator_new(group_by, aggs, input_schema) ==
    IF \E g \in DOMAIN group_by : FieldIndex(input_schema, group_by[g]) = 0
    THEN Err("Group column not found")
    ELSE Ok([group_by |-> group_by, aggs |-> aggs,
             schema |-> [g \in DOMAIN group_by |->
                            input_schema[FieldIndex(input_schema, group_by[g])]]
                        \o [a \in DOMAIN aggs |->
                            Field(aggs[a].alias, agg_data_type(aggs[a]), TRUE)]])

\* AggregateOperator::hash_aggregate, the map iterated in the order `order`
hash_aggregate(op, inputs, order) ==
    IF aggregate_fails(op, inputs) THEN Err("Column not found or unsupported group type")
    ELSE build_output_batch(op, map_values(aggregate_map(op, inputs), order))

\* AggregateOperator::execute_many
agg_execute_many(op, inputs, order) ==
    LET batch == hash_aggregate(op, inputs, order)
    IN IF ~batch.ok THEN batch
       ELSE IF is_empty(batch.val) THEN Ok(<<>>) ELSE Ok(<<batch.val>>)

\* Executor::execute, the Aggregate arm, given the child's batches
executor_aggregate(group_by, aggs, input_batches, order) ==
    IF input_batches = <<>>
    THEN LET schema == [g \in DOMAIN group_by |-> Field(group_by[g], "Utf8", TRUE)]
                       \o [a \in DOMAIN aggs |->
                            Field(aggs[a].alias, agg_data_type(aggs[a]), TRUE)]
             batch == try_new(schema, [f \in DOMAIN schema |-> <<>>])
         IN IF batch.ok THEN Ok(<<batch.val>>) ELSE batch
    ELSE LET agg_op_ == AggregateOperator_new(group_by, aggs, input_batches[1].schema)
         IN IF ~agg_op_.ok THEN agg_op_
            ELSE agg_execute_many(agg_op_.val, input_batches, order)

\* the keys of the map the aggregation builds (none when it fails first)
aggregate_keys(op, inputs) ==
    IF aggregate_fails(op, inputs) THEN {} ELSE DOMAIN aggregate_map(op, inputs)

\* the entries of the map in iteration order (none when it fails first)
aggregate_entries(op, inputs, order) ==
    IF aggregate_fails(op, inputs) THEN <<>>
    ELSE map_values(aggregate_map(op, inputs), order)

\* ----------------------------------------------------- Aggregate: the inputs

\* Two tables.  "strings": two Utf8 columns whose values can hold the key
\* separator and a type tag.  "numbers": an Int32 group column and a Float64
\* value column with both infinities.
StringsSchema == <<Field("a", "Utf8", TRUE), Field("b", "Utf8", TRUE)>>
NumbersSchema == <<Field("k", "Int32", TRUE), Field("v", "Float64", TRUE)>>

StringsRows == {None, Some("x"), Some("x|str:y")} \X {Some("z"), Some("y|str:z")}
NumbersRows == {None, Some(1)} \X {None, Some(NegInf), Some(Fin(1)), Some(Fin(2)), Some(PosInf)}

StringsAggs == <<Aggregation("Count", None, "n"),
                 Aggregation("Count", Some("b"), "nb")>>
NumbersAggs == <<Aggregation("Count", None, "n"),
                 Aggregation("Count", Some("v"), "nv"),
                 Aggregation("Sum", Some("v"), "total"),
                 Aggregation("Avg", Some("v"), "mean"),
                 Aggregation("Min", Some("v"), "lo"),
                 Aggregation("Max", Some("v"), "hi")>>

\* aggregations over a column the table does not have
UnknownColumnRows == {<<Some(1), Some(Fin(1))>>, <<None, Some(Fin(2))>>}
UnknownColumnAggs == <<Aggregation("Count", Some("zz"), "n"),
                       Aggregation("Sum", Some("zz"), "total")>>

AggScenarios ==
    {[schema |-> StringsSchema, rows |-> StringsRows, group_by |-> gb, aggs |-> StringsAggs] :
        gb \in {<<"a">>, <<"a", "b">>, <<"zz">>}}
    \cup {[schema |-> NumbersSchema, rows |-> NumbersRows, group_by |-> <<"k">>,
           aggs |-> NumbersAggs]}
    \cup {[schema |-> NumbersSchema, rows |-> UnknownColumnRows, group_by |-> <<"k">>,
           aggs |-> UnknownColumnAggs]}

InitAgg ==
    /\ pc = "start"
    /\ \E sc \in AggScenarios :
         /\ \E rows \in SeqsUpTo(sc.rows, MaxAggRows) : agg_inputs \in Splits(sc.schema, rows)
         /\ agg_plan = [group_by |-> sc.group_by, aggs |-> sc.aggs, input_schema |-> sc.schema]
    /\ agg_op = Idle /\ agg_groups = Idle /\ agg_result = Idle /\ agg_via = Idle
    /\ left_batches = Idle /\ right_batches = Idle /\ join_op = Idle
    /\ join_pairs = Idle /\ join_result = Idle
    /\ filter_input = Idle /\ filter_op = Idle /\ filter_result = Idle
    /\ sort_inputs = Idle /\ sort_op = Idle /\ sort_result = Idle
    /\ ParquetIdle /\ BatchIdle /\ ProjectIdle /\ ExecIdle

\* A caller builds the operator itself, from the schema of its input
AggNew ==
    /\ pc = "start"
    /\ LET made == AggregateOperator_new(agg_plan.group_by, agg_plan.aggs,
                                         agg_plan.input_schema)
       IN IF made.ok
          THEN /\ agg_op' = made.val
               /\ pc' = "built"
               /\ UNCHANGED agg_result
          ELSE /\ agg_result' = made
               /\ pc' = "done"
               /\ UNCHANGED agg_op
    /\ agg_via' = "operator"
    /\ UNCHANGED <<agg_plan, agg_inputs, agg_groups, joinVars, filterVars, sortVars,
                 parquetVars, batchVars, projVars, execVars>>

\* AggregateOperator::execute_many
AggExecuteMany ==
    /\ pc = "built"
    /\ \E order \in IterationOrders(aggregate_keys(agg_op, agg_inputs)) :
         /\ agg_groups' = aggregate_entries(agg_op, agg_inputs, order)
         /\ agg_result' = agg_execute_many(agg_op, agg_inputs, order)
    /\ pc' = "done"
    /\ UNCHANGED <<agg_plan, agg_inputs, agg_op, agg_via, joinVars, filterVars, sortVars,
                 parquetVars, batchVars, projVars, execVars>>

\* the operator the Executor builds for the node, when it builds one
executor_agg_op(group_by, aggs, input_batches) ==
    IF input_batches = <<>> THEN Err("no operator is built")
    ELSE AggregateOperator_new(group_by, aggs, input_batches[1].schema)

\* Executor::execute on an Aggregate node whose child returned agg_inputs
ExecutorAggregate ==
    /\ pc = "start"
    /\ LET made == executor_agg_op(agg_plan.group_by, agg_plan.aggs, agg_inputs)
       IN \E order \in IterationOrders(IF made.ok THEN aggregate_keys(made.val, agg_inputs)
                                       ELSE {}) :
            /\ agg_groups' = IF made.ok THEN aggregate_entries(made.val, agg_inputs, order)
                             ELSE <<>>
            /\ agg_result' = executor_aggregate(agg_plan.group_by, agg_plan.aggs,
                                                agg_inputs, order)
            /\ agg_op' = IF made.ok THEN made.val ELSE agg_op
    /\ agg_via' = "executor"
    /\ pc' = "done"
    /\ UNCHANGED <<agg_plan, agg_inputs, joinVars, filterVars, sortVars,
                 parquetVars, batchVars, projVars, execVars>>

NextAgg == AggNew \/ AggExecuteMany \/ ExecutorAggregate

SpecAgg == InitAgg /\ [][NextAgg]_vars

\* ----------------------------------------------------- Aggregate: the claims

AggDone == pc = "done"
AggIn == AllRows(agg_inputs)
AggOut == ResultRows(agg_result)
AggGroupBy == agg_plan.group_by
AggAggs == agg_plan.aggs
AggCol(name) == FieldIndex(agg_plan.input_schema, name)
AggGroupColsKnown == \A g \in DOMAIN AggGroupBy : AggCol(AggGroupBy[g]) # 0

\* the tuple of group-by cells of an input row
GroupTuple(row) == [g \in DOMAIN AggGroupBy |-> row[AggCol(AggGroupBy[g])]]
DistinctGroupTuples == {GroupTuple(AggIn[r]) : r \in DOMAIN AggIn}

\* the cell a captured GroupValue stands for
GroupCell(gv) == IF gv = GroupNull THEN None ELSE Some(gv[2])

\* the group-by tuple of the k-th group in iteration order
EntryTuple(k) == [g \in DOMAIN AggGroupBy |-> GroupCell(agg_groups[k].vals[g])]

\* the input rows of the k-th group
EntryRows(k) == {r \in DOMAIN AggIn : GroupTuple(AggIn[r]) = EntryTuple(k)}

\* the output column of aggregate a
AggOutCol(a) == Len(AggGroupBy) + a

\* the group key of input row r, as hash_aggregate computes it
InputKey(r) ==
    get_group_key(agg_plan, BatchOfRows(agg_plan.input_schema, AggIn), r)

\* C3: two input rows get the same group key iff their group-by tuples are equal
\* (null equal only to null), also for strings holding '|' or a type tag; so
\* the number of output rows is the number of distinct group-by tuples.
C3_GroupKeyInjective ==
    (AggDone /\ AggGroupColsKnown /\ agg_result.ok) =>
        /\ \A r1, r2 \in DOMAIN AggIn :
             (InputKey(r1) = InputKey(r2)) <=> (GroupTuple(AggIn[r1]) = GroupTuple(AggIn[r2]))
        /\ Len(AggOut) = Cardinality(DistinctGroupTuples)

\* aggregate a names no column, or a column of the input
AggAggColKnown(a) ==
    IsNone(AggAggs[a].column) \/ AggCol(Unwrap(AggAggs[a].column)) # 0

\* the rows of group k that COUNT(column) must count
CountedRows(k, column) ==
    IF IsNone(column) THEN EntryRows(k)
    ELSE {r \in EntryRows(k) : IsSome(AggIn[r][AggCol(Unwrap(column))])}

\* C4: COUNT(*) of a group is its number of input rows, and COUNT(c) its number
\* of rows with c non-null, whatever the dtype of c.
C4_CountCountsNonNull ==
    (AggDone /\ AggGroupColsKnown /\ agg_result.ok) =>
        /\ Len(AggOut) = Len(agg_groups)
        /\ \A k \in DOMAIN AggOut : \A a \in DOMAIN AggAggs :
             (AggAggs[a].function = "Count" /\ AggAggColKnown(a)) =>
                AggOut[k][AggOutCol(a)] = Some(Cardinality(CountedRows(k, AggAggs[a].column)))

\* C5: every output row shows, in each group-by column, the value captured for
\* its group: the value when non-null, null when null, for every emission order.
C5_GroupColumnsCarryGroupValues ==
    (AggDone /\ AggGroupColsKnown /\ agg_result.ok) =>
        /\ Len(AggOut) = Len(agg_groups)
        /\ \A k \in DOMAIN AggOut : \A g \in DOMAIN AggGroupBy :
             AggOut[k][g] = GroupCell(agg_groups[k].vals[g])

\* the aggregate output schema for the child's schema
AggOutputSchema ==
    [g \in DOMAIN AggGroupBy |-> agg_plan.input_schema[AggCol(AggGroupBy[g])]]
    \o [a \in DOMAIN AggAggs |->
          Field(AggAggs[a].alias,
                IF AggAggs[a].function = "Count" THEN "Int64" ELSE "Float64", TRUE)]

\* C6: over empty input (no batch, or only zero-row batches) the aggregation
\* returns exactly one zero-row batch with the aggregate output schema, through
\* AggregateOperator::execute_many and through Executor::execute alike.
C6_EmptyInputGivesOneEmptyBatch ==
    (AggDone /\ AggGroupColsKnown /\ AggIn = <<>>) =>
        /\ agg_result.ok
        /\ Len(agg_result.val) = 1
        /\ agg_result.val[1].num_rows = 0
        /\ agg_result.val[1].schema = AggOutputSchema

\* the COUNT(*) aggregates of the plan
CountStars == {a \in DOMAIN AggAggs :
                 AggAggs[a].function = "Count" /\ IsNone(AggAggs[a].column)}

\* C7: for non-empty input, however split over batches, the COUNT(*) values of
\* the output groups sum to the number of input rows and each is at least 1.
C7_CountStarSumsToRowCount ==
    (AggDone /\ AggGroupColsKnown /\ AggIn # <<>>) =>
        /\ agg_result.ok
        /\ \A a \in CountStars :
             /\ SumSeq([k \in DOMAIN AggOut |-> Unwrap(AggOut[k][AggOutCol(a)])]) = Len(AggIn)
             /\ \A k \in DOMAIN AggOut : Unwrap(AggOut[k][AggOutCol(a)]) >= 1

\* C7 witness: the input rows arrive in two non-empty batches and form two groups
C7_Witness ==
    /\ AggDone /\ agg_result.ok /\ AggGroupColsKnown
    /\ Len(agg_inputs) = 2 /\ agg_inputs[1].num_rows > 0 /\ agg_inputs[2].num_rows > 0
    /\ Len(AggOut) = 2
    /\ CountStars # {}
    /\ \E k \in DOMAIN AggOut : \E a \in CountStars : AggOut[k][AggOutCol(a)] = Some(1)

\* the non-null numeric values of column `column` in group k, in input order
GroupValues(k, column) ==
    LET c == AggCol(column)
        dtype == agg_plan.input_schema[c].dtype
        rows == SelectSeq([r \in DOMAIN AggIn |-> r], LAMBDA r : r \in EntryRows(k))
        cells == [i \in DOMAIN rows |-> extract_numeric(dtype, AggIn[rows[i]][c])]
        some == SelectSeq(cells, IsSome)
    IN [i \in DOMAIN some |-> Unwrap(some[i])]

RECURSIVE FSum(_)
FSum(vs) == IF vs = <<>> THEN Fin(0) ELSE FAdd(FSum(SubSeq(vs, 1, Len(vs) - 1)), vs[Len(vs)])

\* v is a least (greatest) element of vs
IsMinOf(v, vs) == v \in Range(vs) /\ \A w \in Range(vs) : ~FLt(w, v)
IsMaxOf(v, vs) == v \in Range(vs) /\ \A w \in Range(vs) : ~FLt(v, w)

\* C8: Avg is null exactly when the group has no non-null numeric value and is
\* sum/count otherwise; Min (Max) is null exactly when no non-null value was
\* seen and is the smallest (largest) value seen otherwise, infinities included.
C8_AvgMinMax ==
    (AggDone /\ AggGroupColsKnown /\ agg_result.ok) =>
        /\ Len(AggOut) = Len(agg_groups)
        /\ \A k \in DOMAIN AggOut : \A a \in DOMAIN AggAggs :
             LET f == AggAggs[a].function
                 cell == AggOut[k][AggOutCol(a)]
                 vs == GroupValues(k, Unwrap(AggAggs[a].column))
             IN /\ f = "Avg" =>
                     IF vs = <<>> THEN IsNone(cell)
                     ELSE cell = Some(FDivCount(FSum(vs), Len(vs)))
                /\ f = "Min" =>
                     IF vs = <<>> THEN IsNone(cell)
                     ELSE IsSome(cell) /\ IsMinOf(Unwrap(cell), vs)
                /\ f = "Max" =>
                     IF vs = <<>> THEN IsNone(cell)
                     ELSE IsSome(cell) /\ IsMaxOf(Unwrap(cell), vs)

\* ------------------------------------------------------------------- Filter

\* LogicalExpr
Column(name) == [kind |-> "Column", name |-> name]
Literal(vtype, value) == [kind |-> "Literal", vtype |-> vtype, value |-> value]
BinaryExpr(left, op, right) == [kind |-> "BinaryExpr", left |-> left, op |-> op, right |-> right]

ComparisonOps == {"Eq", "Neq", "Lt", "Le", "Gt", "Ge"}

\* the order of the values of one data type: integers by value, false before
\* true, f64 by FLt
ValueLt(dtype, a, b) ==
    CASE dtype = "Boolean" -> (~a) /\ b
      [] dtype = "Float64" -> FLt(a, b)
      [] OTHER -> a < b

\* one comparison of two non-null values
compare_values(op, dtype, a, b) ==
    CASE op = "Eq" -> a = b
      [] op = "Neq" -> a # b
      [] op = "Lt" -> ValueLt(dtype, a, b)
      [] op = "Le" -> ValueLt(dtype, a, b) \/ a = b
      [] op = "Gt" -> ValueLt(dtype, b, a)
      [] OTHER -> ValueLt(dtype, b, a) \/ a = b

\* eq_dyn, neq_dyn, lt_dyn, lt_eq_dyn, gt_dyn, gt_eq_dyn: the arrays must have
\* one data type; a slot is null when either input slot is null
compare_dyn(op, left, right) ==
    IF left.dtype # right.dtype THEN Err("Failed to evaluate comparison")
    ELSE Ok([k \in DOMAIN left.cells |->
               IF IsNone(left.cells[k]) \/ IsNone(right.cells[k]) THEN None
               ELSE Some(compare_values(op, left.dtype,
                                        Unwrap(left.cells[k]), Unwrap(right.cells[k])))])

\* arrow::compute::and / or: a slot is null when either input slot is null
boolean_kernel(op, left, right) ==
    [k \in DOMAIN left |->
        IF IsNone(left[k]) \/ IsNone(right[k]) THEN None
        ELSE IF op = "And" THEN Some(Unwrap(left[k]) /\ Unwrap(right[k]))
        ELSE Some(Unwrap(left[k]) \/ Unwrap(right[k]))]

\* FilterOperator::as_boolean_array
as_boolean_array(array) ==
    IF array.dtype = "Boolean" THEN Ok(array.cells) ELSE Err("Array is not a boolean array")

\* vec![value; len]
broadcast(value, len) == [k \in 1..len |-> Some(value)]

RECURSIVE evaluate_expr(_, _)
RECURSIVE evaluate_to_array(_, _)

\* an evaluation that takes a Boolean column as its own mask
evaluate_expr_column_as_mask(batch, expr) ==
    CASE expr.kind = "Column" ->
            LET array == evaluate_to_array(batch, expr)
            IN IF ~array.ok THEN array ELSE as_boolean_array(array.val)
      [] expr.kind = "Literal" ->
            IF expr.vtype = "Boolean" THEN Ok(broadcast(expr.value, batch.num_rows))
            ELSE Err("Non-boolean literal cannot be used as predicate")
      [] OTHER ->
            LET left_array == evaluate_to_array(batch, expr.left)
            IN IF ~left_array.ok THEN left_array
               ELSE LET right_array == evaluate_to_array(batch, expr.right)
                    IN IF ~right_array.ok THEN right_array
                       ELSE IF expr.op \in ComparisonOps
                       THEN compare_dyn(expr.op, left_array.val, right_array.val)
                       ELSE LET left_bool == as_boolean_array(left_array.val)
                                right_bool == as_boolean_array(right_array.val)
                            IN IF ~left_bool.ok THEN left_bool
                               ELSE IF ~right_bool.ok THEN right_bool
                               ELSE Ok(boolean_kernel(expr.op, left_bool.val, right_bool.val))

\* FilterOperator::evaluate_expr: the boolean mask of an expression
evaluate_expr(batch, expr) ==
    CASE expr.kind = "Column" ->
            Err("Cannot evaluate column as boolean without comparison")
      [] expr.kind = "Literal" ->
            IF expr.vtype = "Boolean" THEN Ok(broadcast(expr.value, batch.num_rows))
            ELSE Err("Non-boolean literal cannot be used as predicate")
      [] OTHER ->
            LET left_array == evaluate_to_array(batch, expr.left)
            IN IF ~left_array.ok THEN left_array
               ELSE LET right_array == evaluate_to_array(batch, expr.right)
                    IN IF ~right_array.ok THEN right_array
                       ELSE IF expr.op \in ComparisonOps
                       THEN compare_dyn(expr.op, left_array.val, right_array.val)
                       ELSE LET left_bool == as_boolean_array(left_array.val)
                                right_bool == as_boolean_array(right_array.val)
                            IN IF ~left_bool.ok THEN left_bool
                               ELSE IF ~right_bool.ok THEN right_bool
                               ELSE Ok(boolean_kernel(expr.op, left_bool.val, right_bool.val))

\* FilterOperator::evaluate_to_array: the typed array of an expression
evaluate_to_array(batch, expr) ==
    CASE expr.kind = "Column" ->
            LET c == column_by_name(batch, expr.name)
            IN IF c = 0 THEN Err("Column not found")
               ELSE Ok([dtype |-> batch.schema[c].dtype, cells |-> batch.columns[c]])
      [] expr.kind = "Literal" ->
            Ok([dtype |-> expr.vtype, cells |-> broadcast(expr.value, batch.num_rows)])
      [] OTHER ->
            LET bool_array == evaluate_expr(batch, expr)
            IN IF ~bool_array.ok THEN bool_array
               ELSE Ok([dtype |-> "Boolean", cells |-> bool_array.val])

\* a filter kernel that keeps the slots whose mask is not false
filter_kernel_keeps_null(col, mask) ==
    LET keep == SelectSeq([k \in DOMAIN col |-> k], LAMBDA k : mask[k] # Some(FALSE))
    IN [i \in DOMAIN keep |-> col[keep[i]]]

\* arrow::compute::filter: the slots whose mask is true, in order
filter_kernel(col, mask) ==
    LET keep == SelectSeq([k \in DOMAIN col |-> k], LAMBDA k : mask[k] = Some(TRUE))
    IN [i \in DOMAIN keep |-> col[keep[i]]]

\* FilterOperator::new
FilterOperator_new(predicate, input_schema) ==
    Ok([predicate |-> predicate, schema |-> input_schema])

\* FilterOperator::execute
filter_execute(op, input) ==
    LET boolean_mask == evaluate_expr(input, op.predicate)
    IN IF ~boolean_mask.ok THEN boolean_mask
       ELSE try_new(op.schema,
                    [c \in DOMAIN input.columns |->
                        filter_kernel(input.columns[c], boolean_mask.val)])

\* ------------------------------------------------------- Filter: the inputs

FilterSchema == <<Field("age", "Int32", TRUE), Field("flag", "Boolean", TRUE)>>
FilterRows == {None, Some(1), Some(2)} \X {None, Some(TRUE), Some(FALSE)}

AgeGt1 == BinaryExpr(Column("age"), "Gt", Literal("Int32", 1))
AgeEq1 == BinaryExpr(Literal("Int32", 1), "Eq", Column("age"))
FlagIsTrue == BinaryExpr(Column("flag"), "Eq", Literal("Boolean", TRUE))
FlagNotTrue == BinaryExpr(Column("flag"), "Neq", Literal("Boolean", TRUE))

Predicates ==
    { AgeGt1, AgeEq1, FlagIsTrue,
      BinaryExpr(Column("age"), "Le", Literal("Int32", 1)),
      BinaryExpr(AgeGt1, "And", FlagIsTrue),
      BinaryExpr(AgeEq1, "Or", FlagNotTrue),
      BinaryExpr(Column("flag"), "And", AgeGt1),
      BinaryExpr(AgeGt1, "Eq", Column("flag")),
      Literal("Boolean", TRUE),
      Literal("Boolean", FALSE),
      Column("flag"),
      Literal("Int32", 1),
      BinaryExpr(Column("age"), "Eq", Literal("Int64", 1)),
      BinaryExpr(Column("age"), "And", FlagIsTrue),
      BinaryExpr(FlagIsTrue, "Or", Literal("Int32", 1)),
      BinaryExpr(Column("zz"), "Eq", Literal("Int32", 1)) }

InitFilter ==
    /\ pc = "start"
    /\ \E rows \in SeqsUpTo(FilterRows, MaxFilterRows) :
         filter_input = BatchOfRows(FilterSchema, rows)
    /\ filter_op \in {[predicate |-> p] : p \in Predicates}
    /\ filter_result = Idle
    /\ left_batches = Idle /\ right_batches = Idle /\ join_op = Idle
    /\ join_pairs = Idle /\ join_result = Idle
    /\ agg_plan = Idle /\ agg_inputs = Idle /\ agg_op = Idle /\ agg_groups = Idle
    /\ agg_result = Idle /\ agg_via = Idle
    /\ sort_inputs = Idle /\ sort_op = Idle /\ sort_result = Idle
    /\ ParquetIdle /\ BatchIdle /\ ProjectIdle /\ ExecIdle

\* The caller builds the operator from the schema of its input batch
FilterNew ==
    /\ pc = "start"
    /\ filter_op' = FilterOperator_new(filter_op.predicate, filter_input.schema).val
    /\ pc' = "built"
    /\ UNCHANGED <<filter_input, filter_result, joinVars, aggVars, sortVars,
                 parquetVars, batchVars, projVars, execVars>>

\* FilterOperator::execute
FilterExecute ==
    /\ pc = "built"
    /\ filter_result' = filter_execute(filter_op, filter_input)
    /\ pc' = "done"
    /\ UNCHANGED <<filter_input, filter_op, joinVars, aggVars, sortVars,
                 parquetVars, batchVars, projVars, execVars>>

NextFilter == FilterNew \/ FilterExecute

SpecFilter == InitFilter /\ [][NextFilter]_vars

\* ------------------------------------------------------- Filter: the claims

\* SQL three-valued value of an expression on one row: Some(TRUE), Some(FALSE)
\* or None (unknown); a column or literal gives its cell
RECURSIVE RowValue(_, _)
RowValue(row, expr) ==
    CASE expr.kind = "Column" -> row[FieldIndex(FilterSchema, expr.name)]
      [] expr.kind = "Literal" -> Some(expr.value)
      [] OTHER ->
            LET l == RowValue(row, expr.left)
                r == RowValue(row, expr.right)
            IN IF IsNone(l) \/ IsNone(r) THEN None
               ELSE CASE expr.op = "And" -> Some(Unwrap(l) /\ Unwrap(r))
                      [] expr.op = "Or" -> Some(Unwrap(l) \/ Unwrap(r))
                      [] expr.op = "Eq" -> Some(Unwrap(l) = Unwrap(r))
                      [] expr.op = "Neq" -> Some(Unwrap(l) # Unwrap(r))
                      [] expr.op = "Lt" -> Some(Unwrap(l) < Unwrap(r))
                      [] expr.op = "Le" -> Some(Unwrap(l) <= Unwrap(r))
                      [] expr.op = "Gt" -> Some(Unwrap(l) > Unwrap(r))
                      [] OTHER -> Some(Unwrap(l) >= Unwrap(r))

FilterDone == pc = "done"
FilterInRows == Rows(filter_input)

\* the input rows the predicate holds for, in input order
RowsKept == SelectSeq(FilterInRows, LAMBDA row : RowValue(row, filter_op.predicate) = Some(TRUE))

\* C9: FilterOperator::execute returns a batch with the schema of its input that
\* holds exactly the input rows for which the predicate is true (rows where it
\* is false or null are removed), in their original order, values unchanged.
C9_FilterKeepsExactlyTrueRows ==
    (FilterDone /\ filter_result.ok) =>
        /\ filter_result.val.schema = filter_input.schema
        /\ Rows(filter_result.val) = RowsKept
        /\ filter_result.val.num_rows = Len(RowsKept)

\* C9 witness: a batch of two rows where the predicate is true for the second
\* row and null for the first, and only the second row is returned
C9_Witness ==
    /\ FilterDone /\ filter_result.ok
    /\ filter_input.num_rows = 2
    /\ RowValue(FilterInRows[1], filter_op.predicate) = None
    /\ RowValue(FilterInRows[2], filter_op.predicate) = Some(TRUE)
    /\ Rows(filter_result.val) = <<FilterInRows[2]>>

\* --------------------------------------------------------------------- Sort

\* OrderByExpr {column, ascending}
OrderByExpr(column, ascending) == [column |-> column, ascending |-> ascending]

\* SortOperator::new
SortOperator_new(order_by, input_schema) ==
    IF \E e \in DOMAIN order_by : FieldIndex(input_schema, order_by[e].column) = 0
    THEN Err("Order column not found")
    ELSE Ok([order_by |-> order_by, schema |-> input_schema])

\* sort options that put the nulls last
sort_options_nulls_last(e) == [descending |-> ~e.ascending, nulls_first |-> FALSE]

\* sort_batch: the SortOptions of one order-by expression
sort_options(e) == [descending |-> ~e.ascending, nulls_first |-> TRUE]

\* sort_batch: the SortColumns (values with options) of a batch
sort_columns(op, batch) ==
    [e \in DOMAIN op.order_by |->
        [values |-> batch.columns[column_by_name(batch, op.order_by[e].column)],
         options |-> sort_options(op.order_by[e])]]

\* the kernel's order of two cells of one sort column: -1, 0 or 1
compare_cells(options, a, b) ==
    CASE IsNone(a) /\ IsNone(b) -> 0
      [] IsNone(a) -> IF options.nulls_first THEN -1 ELSE 1
      [] IsNone(b) -> IF options.nulls_first THEN 1 ELSE -1
      [] Unwrap(a) = Unwrap(b) -> 0
      [] OTHER -> IF (Unwrap(a) < Unwrap(b)) # options.descending THEN -1 ELSE 1

\* the kernel's lexicographic order of rows i and j, from sort column c on
RECURSIVE compare_rows(_, _, _, _)
compare_rows(cols, c, i, j) ==
    IF c > Len(cols) THEN 0
    ELSE LET r == compare_cells(cols[c].options, cols[c].values[i], cols[c].values[j])
         IN IF r # 0 THEN r ELSE compare_rows(cols, c + 1, i, j)

\* the permutations of 1..n
IndexPermutations(n) ==
    {p \in [1..n -> 1..n] : \A i, j \in 1..n : i # j => p[i] # p[j]}

\* arrow_ord::sort::lexsort_to_indices: an index array that lists the rows in
\* lexicographic order; the kernel promises no order among equal rows
lexsort_to_indices(cols, n) ==
    {p \in IndexPermutations(n) :
        \A i, j \in 1..n : i < j => compare_rows(cols, 1, p[i], p[j]) <= 0}

\* SortOperator::sort_batch with the index array the kernel returned
sort_batch(op, batch, indices) ==
    IF batch.num_rows = 0 THEN Ok(batch)
    ELSE IF op.order_by = <<>> THEN Ok(batch)
    ELSE IF \E e \in DOMAIN op.order_by : column_by_name(batch, op.order_by[e].column) = 0
    THEN Err("Column not found")
    ELSE try_new(op.schema, [c \in DOMAIN batch.columns |-> take(batch.columns[c], indices)])

\* the index arrays the kernel can return inside sort_batch (one dummy when
\* sort_batch returns before it calls the kernel)
sort_batch_indices(op, batch) ==
    IF \/ batch.num_rows = 0
       \/ op.order_by = <<>>
       \/ \E e \in DOMAIN op.order_by : column_by_name(batch, op.order_by[e].column) = 0
    THEN {<<>>}
    ELSE lexsort_to_indices(sort_columns(op, batch), batch.num_rows)

\* SortOperator::execute_many
sort_execute_many(op, inputs, indices) ==
    IF inputs = <<>> THEN Ok(<<>>)
    ELSE LET combined == concat(inputs)
         IN IF ~combined.ok THEN combined
            ELSE LET sorted == sort_batch(op, combined.val, indices)
                 IN IF ~sorted.ok THEN sorted
                    ELSE IF is_empty(sorted.val) THEN Ok(<<>>) ELSE Ok(<<sorted.val>>)

\* the index arrays the kernel can return inside execute_many
sort_execute_many_indices(op, inputs) ==
    IF inputs = <<>> \/ ~concat(inputs).ok THEN {<<>>}
    ELSE sort_batch_indices(op, concat(inputs).val)

\* --------------------------------------------------------- Sort: the inputs

SortSchema == <<Field("id", "Int32", FALSE), Field("x", "Int32", TRUE), Field("y", "Int32", TRUE)>>
SortCells == {None, Some(1), Some(2)} \X {None, Some(1)}

\* rows: a row id and the two sort cells
SortRowLists ==
    {[r \in DOMAIN cs |-> <<Some(r), cs[r][1], cs[r][2]>>] : cs \in SeqsUpTo(SortCells, MaxSortRows)}

OrderBys ==
    { <<>>,
      <<OrderByExpr("x", TRUE)>>,
      <<OrderByExpr("x", FALSE)>>,
      <<OrderByExpr("y", TRUE), OrderByExpr("x", FALSE)>>,
      <<OrderByExpr("x", FALSE), OrderByExpr("y", TRUE)>>,
      <<OrderByExpr("zz", TRUE)>> }

InitSort ==
    /\ pc = "start"
    /\ \E rows \in SortRowLists : sort_inputs \in Splits(SortSchema, rows)
    /\ sort_op \in {[order_by |-> ob] : ob \in OrderBys}
    /\ sort_result = Idle
    /\ left_batches = Idle /\ right_batches = Idle /\ join_op = Idle
    /\ join_pairs = Idle /\ join_result = Idle
    /\ agg_plan = Idle /\ agg_inputs = Idle /\ agg_op = Idle /\ agg_groups = Idle
    /\ agg_result = Idle /\ agg_via = Idle
    /\ filter_input = Idle /\ filter_op = Idle /\ filter_result = Idle
    /\ ParquetIdle /\ BatchIdle /\ ProjectIdle /\ ExecIdle

\* The caller builds the operator from the schema of the table
SortNew ==
    /\ pc = "start"
    /\ LET made == SortOperator_new(sort_op.order_by, SortSchema)
       IN IF made.ok
          THEN /\ sort_op' = made.val
               /\ pc' = "built"
               /\ UNCHANGED sort_result
          ELSE /\ sort_result' = made
               /\ pc' = "done"
               /\ UNCHANGED sort_op
    /\ UNCHANGED <<sort_inputs, joinVars, aggVars, filterVars,
                 parquetVars, batchVars, projVars, execVars>>

\* SortOperator::execute_many
SortExecuteMany ==
    /\ pc = "built"
    /\ \E indices \in sort_execute_many_indices(sort_op, sort_inputs) :
         sort_result' = sort_execute_many(sort_op, sort_inputs, indices)
    /\ pc' = "done"
    /\ UNCHANGED <<sort_inputs, sort_op, joinVars, aggVars, filterVars,
                 parquetVars, batchVars, projVars, execVars>>

NextSort == SortNew \/ SortExecuteMany

SpecSort == InitSort /\ [][NextSort]_vars

\* --------------------------------------------------------- Sort: the claims

SortDone == pc = "done"
SortIn == AllRows(sort_inputs)
SortOut == ResultRows(sort_result)
SortBuilt == "schema" \in DOMAIN sort_op

\* the cell of a row in the order-by column e
SortKey(row, e) == row[FieldIndex(SortSchema, sort_op.order_by[e].column)]

\* cell a may stand before cell b in a column sorted in the given direction
\* with the nulls before the non-null values
CellBefore(ascending, a, b) ==
    \/ IsNone(a) /\ IsSome(b)
    \/ IsSome(a) /\ IsSome(b)
         /\ IF ascending THEN Unwrap(a) < Unwrap(b) ELSE Unwrap(a) > Unwrap(b)

\* row r is not after row s in the lexicographic order of the order-by list:
\* all keys agree, or the first key that differs puts r before s
LexNotAfter(r, s) ==
    \/ \A e \in DOMAIN sort_op.order_by : SortKey(r, e) = SortKey(s, e)
    \/ \E e \in DOMAIN sort_op.order_by :
         /\ \A d \in 1..(e - 1) : SortKey(r, d) = SortKey(s, d)
         /\ CellBefore(sort_op.order_by[e].ascending, SortKey(r, e), SortKey(s, e))

\* C10: execute_many over a non-empty list of batches returns the rows of all
\* input batches (a permutation of them, none lost or duplicated) in the
\* lexicographic order of the order-by columns, descending where ascending is
\* false, nulls first; the order is global, across the input batches.
C10_SortIsGlobalPermutation ==
    (SortDone /\ SortBuilt /\ sort_inputs # <<>>) =>
        /\ sort_result.ok
        /\ SameBag(SortOut, SortIn)
        /\ \A i, j \in DOMAIN SortOut : i < j => LexNotAfter(SortOut[i], SortOut[j])

\* C10 witness: two batches of one row each, given in the wrong order for a
\* descending key, come back as one batch in the right order
C10_Witness ==
    /\ SortDone /\ SortBuilt /\ sort_result.ok
    /\ Len(sort_inputs) = 2 /\ sort_inputs[1].num_rows = 1 /\ sort_inputs[2].num_rows = 1
    /\ sort_op.order_by = <<OrderByExpr("x", FALSE)>>
    /\ SortIn[1][2] = Some(1) /\ SortIn[2][2] = Some(2)
    /\ SortOut = <<SortIn[2], SortIn[1]>>

\* ------------------------------------------------------------------ Parquet

\* ParquetReaderConfig {parallel, column_indices, batch_size}; column indices
\* count from 1 here (from 0 in the code)
ParquetReaderConfig(parallel, column_indices, batch_size) ==
    [parallel |-> parallel, column_indices |-> column_indices, batch_size |-> batch_size]

\* ParquetReader::from_path_with_config (the file exists and is a Parquet file)
from_path_with_config(file, config) == Ok([file |-> file, config |-> config])

\* ParquetReader::from_path: the default configuration
from_path(file) == from_path_with_config(file, ParquetReaderConfig(TRUE, None, 8192))

\* ParquetReader::schema
reader_schema(reader) == Ok(reader.file.schema)

\* file_reader.num_row_groups()
num_row_groups(reader) == Len(reader.file.row_groups)

\* is_supported_type
is_supported_type(data_type) == data_type \in SupportedDTypes

\* validate_record_batch
validate_record_batch(batch) ==
    IF \E f \in DOMAIN batch.schema : ~is_supported_type(batch.schema[f].dtype)
    THEN Err("Unsupported data type")
    ELSE Ok(batch)

\* with_projection: a call into the parquet crate, whose projection is a mask
\* over the leaf columns (parquet::arrow::ProjectionMask): the reader decodes
\* the columns whose index is in the list, in file order, each once
with_projection(schema, column_indices) ==
    IF \E k \in DOMAIN column_indices : column_indices[k] \notin DOMAIN schema
    THEN Err("Failed to apply column projection")
    ELSE Ok(SelectSeq([c \in DOMAIN schema |-> c], LAMBDA c : c \in Range(column_indices)))

\* the columns a record batch reader decodes under a configuration
reader_columns(reader) ==
    IF IsNone(reader.config.column_indices)
    THEN Ok([c \in DOMAIN reader.file.schema |-> c])
    ELSE with_projection(reader.file.schema, Unwrap(reader.config.column_indices))

\* record_batch_reader.next_batch() after pos rows of the row group were
\* decoded: None at the end, else the next batch_size rows (or the rest)
next_batch(reader, cols, row_group_index, pos) ==
    LET rows == reader.file.row_groups[row_group_index]
        n == IF Len(rows) - pos < reader.config.batch_size
             THEN Len(rows) - pos ELSE reader.config.batch_size
    IN IF pos >= Len(rows) THEN None
       ELSE Some([schema |-> [k \in DOMAIN cols |-> reader.file.schema[cols[k]]],
                  columns |-> [k \in DOMAIN cols |->
                                 [r \in 1..n |-> rows[pos + r][cols[k]]]],
                  num_rows |-> n])

\* record_batch_reader.next_batch() returns Err: the pages of a damaged row
\* group cannot be decoded; the failure shows at the last batch of the group
next_batch_fails(reader, row_group_index, pos) ==
    LET rows == reader.file.row_groups[row_group_index]
    IN /\ row_group_index \in reader.file.damaged
       /\ pos < Len(rows)
       /\ Len(rows) - pos <= reader.config.batch_size

\* read_row_group / read_row_group_parallel: the loop over next_batch
RECURSIVE read_batches(_, _, _, _, _)
read_batches(reader, cols, row_group_index, pos, batches) ==
    LET nb == next_batch(reader, cols, row_group_index, pos)
    IN IF next_batch_fails(reader, row_group_index, pos) THEN Err("Error reading batch")
       ELSE IF IsNone(nb) THEN Ok(batches)
       ELSE LET validated_batch == validate_record_batch(Unwrap(nb))
            IN IF ~validated_batch.ok THEN validated_batch
               ELSE read_batches(reader, cols, row_group_index,
                                 pos + Unwrap(nb).num_rows,
                                 Append(batches, validated_batch.val))

\* ParquetReader::read_row_group
read_row_group(reader, row_group_index) ==
    LET cols == reader_columns(reader)
    IN IF ~cols.ok THEN cols
       ELSE read_batches(reader, cols.val, row_group_index, 0, <<>>)

\* the loop of read_all_sequential, from row group i on
RECURSIVE read_groups_from(_, _, _)
read_groups_from(reader, i, all_batches) ==
    IF i > num_row_groups(reader) THEN Ok(all_batches)
    ELSE LET batches == read_row_group(reader, i)
         IN IF ~batches.ok THEN batches
            ELSE read_groups_from(reader, i + 1, all_batches \o batches.val)

\* ParquetReader::read_all_sequential
read_all_sequential(reader) == read_groups_from(reader, 1, <<>>)

\* a worker task of read_all_parallel before it runs
new_task == [state |-> "ready", cols |-> <<>>, pos |-> 0, batches |-> <<>>, result |-> Idle]

\* read_row_group_parallel, up to the first next_batch: the task opens its own
\* reader, selects the row group and applies the projection
task_open(reader, task) ==
    LET cols == reader_columns(reader)
    IN IF ~cols.ok THEN [task EXCEPT !.state = "done", !.result = cols]
       ELSE [task EXCEPT !.state = "reading", !.cols = cols.val]

\* read_row_group_parallel: one turn of the loop over next_batch
task_next_batch(reader, row_group_index, task) ==
    LET nb == next_batch(reader, task.cols, row_group_index, task.pos)
    IN IF next_batch_fails(reader, row_group_index, task.pos)
       THEN [task EXCEPT !.state = "done", !.result = Err("Error reading batch")]
       ELSE IF IsNone(nb) THEN [task EXCEPT !.state = "done", !.result = Ok(task.batches)]
       ELSE LET validated_batch == validate_record_batch(Unwrap(nb))
            IN IF ~validated_batch.ok
               THEN [task EXCEPT !.state = "done", !.result = validated_batch]
               ELSE [task EXCEPT !.pos = task.pos + Unwrap(nb).num_rows,
                                 !.batches = Append(task.batches, validated_batch.val)]

\* a collect that lists the results in the order the tasks finished
collect_in_completion_order(tasks, completed) ==
    [k \in DOMAIN completed |-> tasks[completed[k]].result]

\* into_par_iter().map(..).collect() into a Vec: the result of the task of
\* row group i is element i, whatever the order the tasks finished in
collect_results(tasks, completed) == [i \in DOMAIN tasks |-> tasks[i].result]

\* a flattening loop that skips the row groups whose task failed
RECURSIVE flatten_results_skip_errors(_, _, _)
flatten_results_skip_errors(batch_results, i, all_batches) ==
    IF i > Len(batch_results) THEN Ok(all_batches)
    ELSE IF ~batch_results[i].ok
    THEN flatten_results_skip_errors(batch_results, i + 1, all_batches)
    ELSE flatten_results_skip_errors(batch_results, i + 1, all_batches \o batch_results[i].val)

\* read_all_parallel: the loop that flattens batch_results, from element i on
RECURSIVE flatten_results(_, _, _)
flatten_results(batch_results, i, all_batches) ==
    IF i > Len(batch_results) THEN Ok(all_batches)
    ELSE IF ~batch_results[i].ok THEN batch_results[i]
    ELSE flatten_results(batch_results, i + 1, all_batches \o batch_results[i].val)

\* RecordBatch::from_arrow
from_arrow(batch) ==
    [schema |-> batch.schema, columns |-> batch.columns, num_rows |-> batch.num_rows]

\* ScanOperator::new
ScanOperator_new(file, projection) ==
    LET reader == from_path(file)
        arrow_schema == reader_schema(reader.val).val
    IN IF IsNone(projection)
       THEN Ok([projection |-> projection, schema |-> arrow_schema,
                config |-> ParquetReaderConfig(TRUE, None, 8192)])
       ELSE LET columns == Unwrap(projection)
            IN IF \E k \in DOMAIN columns : FieldIndex(arrow_schema, columns[k]) = 0
               THEN Err("Column not found in schema")
               ELSE Ok([projection |-> projection,
                        schema |-> [k \in DOMAIN columns |->
                                      arrow_schema[FieldIndex(arrow_schema, columns[k])]],
                        config |-> ParquetReaderConfig(TRUE,
                                      Some([k \in DOMAIN columns |->
                                              FieldIndex(arrow_schema, columns[k])]),
                                      8192)])

\* ScanOperator::read_all, after the reader returned: the batches are converted
scan_convert(arrow_batches) ==
    IF ~arrow_batches.ok THEN arrow_batches
    ELSE Ok([k \in DOMAIN arrow_batches.val |-> from_arrow(arrow_batches.val[k])])

\* ------------------------------------------------------ Parquet: the inputs

PqSchema == <<Field("a", "Int32", FALSE), Field("b", "Int64", FALSE)>>
PqUnsupportedSchema == <<Field("a", "Int32", FALSE), Field("b", "Date32", FALSE)>>

\* the row groups of a file whose groups have the given sizes: row r of the
\* file holds (r, 10 * r)
RowGroupsOf(sizes) ==
    [g \in DOMAIN sizes |->
        [r \in 1..sizes[g] |->
            LET id == SumSeq(SubSeq(sizes, 1, g - 1)) + r
            IN <<Some(id), Some(10 * id)>>]]

\* the files: healthy ones of both schemas, and files of the supported schema
\* with one damaged row group
PqFiles ==
    {[schema |-> sch, row_groups |-> RowGroupsOf(sizes), damaged |-> {}] :
        sch \in {PqSchema, PqUnsupportedSchema},
        sizes \in SeqsUpTo(1..MaxGroupRows, MaxRowGroups)}
    \cup UNION {{[schema |-> PqSchema, row_groups |-> RowGroupsOf(sizes), damaged |-> {g}] :
                    g \in DOMAIN sizes} :
                sizes \in SeqsUpTo(1..MaxGroupRows, MaxRowGroups)}

PqConfigs ==
    {ParquetReaderConfig(par, ci, bs) :
        par \in BOOLEAN,
        ci \in {None, Some(<<1>>), Some(<<2, 1>>), Some(<<3>>)},
        bs \in {1, 8192}}

PqProjections == {None, Some(<<"a">>), Some(<<"b">>), Some(<<"a", "b">>),
                  Some(<<"b", "a">>), Some(<<"a", "a">>), Some(<<"zz">>)}

InitParquet ==
    /\ pc = "start"
    /\ pq_file \in PqFiles
    /\ pq_scan \in {[kind |-> "reader", config |-> c] : c \in PqConfigs}
                   \cup {[kind |-> "scan", projection |-> p] : p \in PqProjections}
    /\ pq_tasks = <<>>
    /\ pq_completed = <<>>
    /\ pq_result = Idle
    /\ left_batches = Idle /\ right_batches = Idle /\ join_op = Idle
    /\ join_pairs = Idle /\ join_result = Idle
    /\ agg_plan = Idle /\ agg_inputs = Idle /\ agg_op = Idle /\ agg_groups = Idle
    /\ agg_result = Idle /\ agg_via = Idle
    /\ filter_input = Idle /\ filter_op = Idle /\ filter_result = Idle
    /\ sort_inputs = Idle /\ sort_op = Idle /\ sort_result = Idle
    /\ BatchIdle /\ ProjectIdle /\ ExecIdle

\* the reader that read_all works with
PqReader == [file |-> pq_file, config |-> pq_scan.config]

\* ScanOperator::read_all converts the reader's batches; a caller of the
\* reader gets them as they are
pq_finish(arrow_batches) ==
    IF "schema" \in DOMAIN pq_scan THEN scan_convert(arrow_batches) ELSE arrow_batches

\* ScanOperator::new
ScanNew ==
    /\ pc = "start" /\ pq_scan.kind = "scan"
    /\ LET made == ScanOperator_new(pq_file, pq_scan.projection)
       IN IF made.ok
          THEN /\ pq_scan' = made.val
               /\ pc' = "built"
               /\ UNCHANGED pq_result
          ELSE /\ pq_result' = made
               /\ pc' = "done"
               /\ UNCHANGED pq_scan
    /\ UNCHANGED <<pq_file, pq_tasks, pq_completed,
                   joinVars, aggVars, filterVars, sortVars, batchVars, projVars, execVars>>

\* read_parquet_with_config: ParquetReader::from_path_with_config
ReaderOpen ==
    /\ pc = "start" /\ pq_scan.kind = "reader"
    /\ pq_scan' = [config |-> from_path_with_config(pq_file, pq_scan.config).val.config]
    /\ pc' = "built"
    /\ UNCHANGED <<pq_file, pq_tasks, pq_completed, pq_result,
                   joinVars, aggVars, filterVars, sortVars, batchVars, projVars, execVars>>

\* ParquetReader::read_all: no row group, the sequential read, or the start of
\* the parallel read (one task per row group)
ReadAll ==
    /\ pc = "built"
    /\ IF num_row_groups(PqReader) = 0
       THEN /\ pq_result' = pq_finish(Ok(<<>>))
            /\ pc' = "done"
            /\ UNCHANGED pq_tasks
       ELSE IF PqReader.config.parallel /\ num_row_groups(PqReader) > 1
       THEN /\ pq_tasks' = [i \in 1..num_row_groups(PqReader) |-> new_task]
            /\ pc' = "reading"
            /\ UNCHANGED pq_result
       ELSE /\ pq_result' = pq_finish(read_all_sequential(PqReader))
            /\ pc' = "done"
            /\ UNCHANGED pq_tasks
    /\ UNCHANGED <<pq_file, pq_scan, pq_completed,
                   joinVars, aggVars, filterVars, sortVars, batchVars, projVars, execVars>>

\* a worker task of read_all_parallel takes one step; the pool runs the tasks
\* in any order and interleaving
TaskStep ==
    /\ pc = "reading"
    /\ \E i \in DOMAIN pq_tasks :
         /\ pq_tasks[i].state # "done"
         /\ LET task == IF pq_tasks[i].state = "ready"
                        THEN task_open(PqReader, pq_tasks[i])
                        ELSE task_next_batch(PqReader, i, pq_tasks[i])
            IN /\ pq_tasks' = [pq_tasks EXCEPT ![i] = task]
               /\ pq_completed' = IF task.state = "done"
                                  THEN Append(pq_completed, i) ELSE pq_completed
    /\ UNCHANGED <<pc, pq_file, pq_scan, pq_result,
                   joinVars, aggVars, filterVars, sortVars, batchVars, projVars, execVars>>

\* read_all_parallel after all tasks finished: collect and flatten
Collect ==
    /\ pc = "reading"
    /\ \A i \in DOMAIN pq_tasks : pq_tasks[i].state = "done"
    /\ pq_result' = pq_finish(flatten_results(collect_results(pq_tasks, pq_completed), 1, <<>>))
    /\ pc' = "done"
    /\ UNCHANGED <<pq_file, pq_scan, pq_tasks, pq_completed,
                   joinVars, aggVars, filterVars, sortVars, batchVars, projVars, execVars>>

NextParquet == ScanNew \/ ReaderOpen \/ ReadAll \/ TaskStep \/ Collect

SpecParquet == InitParquet /\ [][NextParquet]_vars

\* ------------------------------------------------------ Parquet: the claims

PqDone == pc = "done"
PqParallelRead == pq_tasks # <<>>

\* the batches of row group i as one reader decodes them
RowGroupBatches(i) == read_row_group(PqReader, i).val

\* C11: a parallel read of a file with more than one row group returns the
\* batches in row-group order (all batches of row group i before those of row
\* group i + 1, each group's batches in decode order), whatever the order the
\* worker tasks ran and finished in, and the list equals the one the
\* sequential read of the same file returns.
C11_ParallelReadInRowGroupOrder ==
    (PqDone /\ PqParallelRead) =>
        /\ pq_result = pq_finish(read_all_sequential(PqReader))
        /\ pq_result.ok =>
             pq_result.val = Flatten([i \in DOMAIN pq_file.row_groups |-> RowGroupBatches(i)])

\* C11 witness: the task of row group 2 finished before the task of row group
\* 1 and the read returned one batch per row
C11_Witness ==
    /\ PqDone /\ PqParallelRead /\ pq_result.ok
    /\ pq_completed = <<2, 1>>
    /\ Len(pq_result.val) > 2

\* ------------------------------------------------ RecordBatch: the methods

\* an Arrow array: its data type and its cells
Array(dtype, cells) == [dtype |-> dtype, cells |-> cells]

\* RecordBatch::try_new on typed arrays: only the cells reach the batch, the
\* arrays' data types are not looked at
try_new_arrays(schema, arrays) ==
    try_new(schema, [i \in DOMAIN arrays |-> arrays[i].cells])

\* RecordBatch::select_columns (indices count from 1 here)
select_columns(batch, indices) ==
    IF \E k \in DOMAIN indices : indices[k] \notin DOMAIN batch.schema
    THEN Err("Column index out of bounds")
    ELSE IF \E k \in DOMAIN indices : indices[k] \notin DOMAIN batch.columns
    THEN Err("Column index out of bounds")
    ELSE try_new([k \in DOMAIN indices |-> batch.schema[indices[k]]],
                 [k \in DOMAIN indices |-> batch.columns[indices[k]]])

\* RecordBatch::select_columns_by_name
select_columns_by_name(batch, names) ==
    IF \E k \in DOMAIN names : FieldIndex(batch.schema, names[k]) = 0
    THEN Err("Column not found in schema")
    ELSE select_columns(batch, [k \in DOMAIN names |-> FieldIndex(batch.schema, names[k])])

\* RecordBatch::slice
slice(batch, offset, length) ==
    IF offset + length > batch.num_rows
    THEN Err("Slice range out of bounds")
    ELSE try_new(batch.schema,
                 [c \in DOMAIN batch.columns |->
                    SubSeq(batch.columns[c], offset + 1, offset + length)])

\* ----------------------------------------------------------------- Project

\* ProjectOperator::new
ProjectOperator_new(column_names, input_schema) ==
    IF \E k \in DOMAIN column_names : FieldIndex(input_schema, column_names[k]) = 0
    THEN Err("Column not found in schema")
    ELSE Ok([column_names |-> column_names,
             column_indices |-> [k \in DOMAIN column_names |->
                                   FieldIndex(input_schema, column_names[k])],
             schema |-> [k \in DOMAIN column_names |->
                           input_schema[FieldIndex(input_schema, column_names[k])]]])

\* ProjectOperator::execute
project_execute(op, input) == select_columns(input, op.column_indices)

\* -------------------------------------------------- RecordBatch: the inputs

BtSchemas == {<<Field("x", "Int32", TRUE)>>,
              <<Field("x", "Int32", TRUE), Field("y", "Utf8", TRUE)>>}

\* the cells an array of a data type can hold
BtCells(dtype) == IF dtype = "Int32" THEN {None, Some(1)} ELSE {None, Some("s")}

\* arrays handed to try_new: any data type, any length
BtArrays ==
    UNION {{Array(dtype, cells) : cells \in SeqsUpTo(BtCells(dtype), MaxBatchRows)} :
            dtype \in {"Int32", "Utf8"}}

\* the rows that fit a schema
BtRows(schema) ==
    IF Len(schema) = 1
    THEN {<<c>> : c \in BtCells(schema[1].dtype)}
    ELSE {<<c, d>> : c \in BtCells(schema[1].dtype), d \in BtCells(schema[2].dtype)}

\* Arrow record batches: Arrow checked their lengths and data types
BtArrowBatches ==
    UNION {{BatchOfRows(schema, rows) : rows \in SeqsUpTo(BtRows(schema), MaxBatchRows)} :
            schema \in BtSchemas}

InitBatch ==
    /\ pc = "start"
    /\ bt_batch = Idle /\ bt_call = Idle /\ bt_result = Idle /\ bt_types = Idle
    /\ left_batches = Idle /\ right_batches = Idle /\ join_op = Idle
    /\ join_pairs = Idle /\ join_result = Idle
    /\ agg_plan = Idle /\ agg_inputs = Idle /\ agg_op = Idle /\ agg_groups = Idle
    /\ agg_result = Idle /\ agg_via = Idle
    /\ filter_input = Idle /\ filter_op = Idle /\ filter_result = Idle
    /\ sort_inputs = Idle /\ sort_op = Idle /\ sort_result = Idle
    /\ ParquetIdle /\ ProjectIdle /\ ExecIdle

\* a batch exists: the last operation returned one
BtLive == pc = "live" /\ bt_result.ok

\* the data types of the arrays of a batch that Arrow built: those of its schema
schema_types(schema) == [c \in DOMAIN schema |-> schema[c].dtype]

\* the arrays of the result of an operation that picks columns by position
picked_types(result, types, indices) ==
    IF result.ok THEN [k \in DOMAIN indices |-> types[indices[k]]] ELSE <<>>

\* the arrays of the result of an operation that keeps the columns
kept_types(result, types) == IF result.ok THEN types ELSE <<>>

\* RecordBatch::try_new builds the first batch of a sequence of operations
BatchTryNew ==
    /\ pc = "start"
    /\ \E schema \in BtSchemas, arrays \in SeqsUpTo(BtArrays, 2) :
         /\ bt_call' = [op |-> "try_new", schema |-> schema, arrays |-> arrays]
         /\ bt_result' = try_new_arrays(schema, arrays)
         /\ bt_types' = kept_types(try_new_arrays(schema, arrays),
                                   [i \in DOMAIN arrays |-> arrays[i].dtype])
    /\ bt_batch' = Idle
    /\ pc' = "live"
    /\ UNCHANGED <<joinVars, aggVars, filterVars, sortVars, parquetVars, projVars, execVars>>

\* RecordBatch::from_arrow builds the first batch of a sequence of operations
BatchFromArrow ==
    /\ pc = "start"
    /\ \E batch \in BtArrowBatches :
         /\ bt_call' = [op |-> "from_arrow", batch |-> batch]
         /\ bt_result' = Ok(from_arrow(batch))
         /\ bt_types' = schema_types(batch.schema)
    /\ bt_batch' = Idle
    /\ pc' = "live"
    /\ UNCHANGED <<joinVars, aggVars, filterVars, sortVars, parquetVars, projVars, execVars>>

\* RecordBatch::select_columns on the batch the last operation returned
BatchSelectColumns ==
    /\ BtLive
    /\ \E indices \in SeqsUpTo(1..3, 2) :
         /\ bt_call' = [op |-> "select_columns", indices |-> indices]
         /\ bt_result' = select_columns(bt_result.val, indices)
         /\ bt_types' = picked_types(select_columns(bt_result.val, indices), bt_types, indices)
    /\ bt_batch' = bt_result.val
    /\ UNCHANGED <<pc, joinVars, aggVars, filterVars, sortVars, parquetVars, projVars, execVars>>

\* RecordBatch::select_columns_by_name
BatchSelectColumnsByName ==
    /\ BtLive
    /\ \E names \in {<<>>, <<"y">>, <<"y", "x">>, <<"x", "x">>, <<"zz">>} :
         /\ bt_call' = [op |-> "select_columns_by_name", names |-> names]
         /\ bt_result' = select_columns_by_name(bt_result.val, names)
         /\ bt_types' = picked_types(select_columns_by_name(bt_result.val, names), bt_types,
                                     [k \in DOMAIN names |->
                                        FieldIndex(bt_result.val.schema, names[k])])
    /\ bt_batch' = bt_result.val
    /\ UNCHANGED <<pc, joinVars, aggVars, filterVars, sortVars, parquetVars, projVars, execVars>>

\* RecordBatch::slice
BatchSlice ==
    /\ BtLive
    /\ \E offset \in 0..MaxBatchRows, length \in 0..MaxBatchRows :
         /\ bt_call' = [op |-> "slice", offset |-> offset, length |-> length]
         /\ bt_result' = slice(bt_result.val, offset, length)
         /\ bt_types' = kept_types(slice(bt_result.val, offset, length), bt_types)
    /\ bt_batch' = bt_result.val
    /\ UNCHANGED <<pc, joinVars, aggVars, filterVars, sortVars, parquetVars, projVars, execVars>>

\* the lists concat is called with: none, the batch alone, or the batch
\* before or after another batch
BtConcatList(shape, b, c) ==
    CASE shape = "none" -> <<>>
      [] shape = "one" -> <<b>>
      [] shape = "before" -> <<b, c>>
      [] OTHER -> <<c, b>>

\* the other batch of such a list: an Arrow-built batch of at most one row
\* (the batch itself where the list has no other batch)
BtConcatPartners(shape, b) ==
    IF shape \in {"none", "one"} THEN {b} ELSE {c \in BtArrowBatches : c.num_rows <= 1}

\* the data types of the arrays of the batches of such a list
BtConcatTypes(shape, types, c) ==
    CASE shape = "none" -> <<>>
      [] shape = "one" -> <<types>>
      [] shape = "before" -> <<types, schema_types(c.schema)>>
      [] OTHER -> <<schema_types(c.schema), types>>

\* RecordBatch::concat with the arrays' data types: the concat kernel refuses
\* to join arrays of different data types
concat_arrays(batches, types) ==
    IF batches = <<>> \/ \E idx \in 2..Len(batches) : batches[idx].schema # batches[1].schema
    THEN concat(batches)
    ELSE IF \E col \in DOMAIN types[1] : \E b \in DOMAIN types : types[b][col] # types[1][col]
    THEN Err("Failed to concatenate column")
    ELSE concat(batches)

\* RecordBatch::concat
BatchConcat ==
    /\ BtLive
    /\ \E shape \in {"none", "one", "before", "after"} :
       \E c \in BtConcatPartners(shape, bt_result.val) :
         LET batches == BtConcatList(shape, bt_result.val, c)
             types == BtConcatTypes(shape, bt_types, c)
         IN /\ Len(AllRows(batches)) <= MaxBatchRows
            /\ bt_call' = [op |-> "concat", batches |-> batches, types |-> types]
            /\ bt_result' = concat_arrays(batches, types)
            /\ bt_types' = IF concat_arrays(batches, types).ok THEN types[1] ELSE <<>>
    /\ bt_batch' = bt_result.val
    /\ UNCHANGED <<pc, joinVars, aggVars, filterVars, sortVars, parquetVars, projVars, execVars>>

\* an operator built from the batch's schema, as the Executor builds it
bt_project(batch) ==
    LET made == ProjectOperator_new(<<"x">>, batch.schema)
    IN IF made.ok THEN {project_execute(made.val, batch)} ELSE {made}
bt_filter(batch, value) ==
    {filter_execute(FilterOperator_new(Literal("Boolean", value), batch.schema).val, batch)}
bt_sort(batch) ==
    LET made == SortOperator_new(<<OrderByExpr("x", FALSE)>>, batch.schema)
    IN IF made.ok
       THEN {sort_batch(made.val, batch, indices) : indices \in sort_batch_indices(made.val, batch)}
       ELSE {made}

\* ProjectOperator::execute, FilterOperator::execute, SortOperator::execute
BatchOperator ==
    /\ BtLive
    /\ \E op \in {"project", "filter", "keep", "sort"} :
         /\ bt_call' = [op |-> op]
         /\ bt_result' \in CASE op = "project" -> bt_project(bt_result.val)
                            [] op = "filter" -> bt_filter(bt_result.val, FALSE)
                            [] op = "keep" -> bt_filter(bt_result.val, TRUE)
                            [] OTHER -> bt_sort(bt_result.val)
         /\ bt_types' = IF ~bt_result'.ok THEN <<>>
                        ELSE IF op = "project"
                        THEN <<bt_types[FieldIndex(bt_result.val.schema, "x")]>>
                        ELSE bt_types
    /\ bt_batch' = bt_result.val
    /\ UNCHANGED <<pc, joinVars, aggVars, filterVars, sortVars, parquetVars, projVars, execVars>>

NextBatch ==
    \/ BatchTryNew \/ BatchFromArrow \/ BatchSelectColumns \/ BatchSelectColumnsByName
    \/ BatchSlice \/ BatchConcat \/ BatchOperator

SpecBatch == InitBatch /\ [][NextBatch]_vars

\* ------------------------------------------------- RecordBatch: the claims

\* the shape every batch must have
WellFormed(batch) ==
    /\ Len(batch.columns) = Len(batch.schema)
    /\ \A c \in DOMAIN batch.columns : Len(batch.columns[c]) = batch.num_rows

BtCalled(op) == pc = "live" /\ bt_call.op = op

\* C13: every batch that exists after any sequence of try_new, from_arrow,
\* select_columns, select_columns_by_name, slice, concat and operator
\* executions has as many columns as schema fields, and every column has
\* num_rows cells.
C13_BatchesAreWellFormed ==
    /\ BtLive => WellFormed(bt_result.val)
    /\ (pc = "live" /\ bt_batch # Idle) => WellFormed(bt_batch)

\* C13 witness: try_new refused columns of different lengths, and a batch that
\* came out of a slice exists
C13_Witness == BtCalled("slice") /\ bt_result.ok /\ bt_result.val.num_rows = 1
                 /\ Len(bt_result.val.columns) = 2

\* C14: try_new returns an error whenever the data type of the array at some
\* position differs from the data type of the schema field at that position,
\* so in every constructed batch the array of column i has the data type of
\* schema field i.
C14_TryNewChecksDataTypes ==
    /\ (BtCalled("try_new") /\ bt_result.ok) =>
          \A i \in DOMAIN bt_call.arrays : bt_call.arrays[i].dtype = bt_call.schema[i].dtype
    /\ BtLive => \A i \in DOMAIN bt_types : bt_types[i] = bt_result.val.schema[i].dtype

\* the receiver and the argument of the last select_columns call
SelB == bt_batch
SelIndices == bt_call.indices

\* C16: select_columns errs if some index is out of range; otherwise it
\* returns a batch with the receiver's num_rows whose k-th field and column
\* are the receiver's field and column at indices[k], for every in-range list
\* (the empty list and repeated indices included).
C16_SelectColumns ==
    BtCalled("select_columns") =>
        IF \E k \in DOMAIN SelIndices : SelIndices[k] \notin 1..Len(SelB.schema)
        THEN ~bt_result.ok
        ELSE /\ bt_result.ok
             /\ bt_result.val.num_rows = SelB.num_rows
             /\ Len(bt_result.val.schema) = Len(SelIndices)
             /\ Len(bt_result.val.columns) = Len(SelIndices)
             /\ \A k \in DOMAIN SelIndices :
                  /\ bt_result.val.schema[k] = SelB.schema[SelIndices[k]]
                  /\ bt_result.val.columns[k] = SelB.columns[SelIndices[k]]

\* the argument of the last concat call
ConcatList == bt_call.batches
ConcatSameSchemas == \A i \in DOMAIN ConcatList : ConcatList[i].schema = ConcatList[1].schema

\* C17: concat of the empty list fails; concat([b]) equals b; for batches with
\* equal schemas the result has the first batch's schema, the sum of the
\* num_rows and the rows of the inputs in list order; concat fails when some
\* batch's schema differs from the first batch's.
C17_Concat ==
    BtCalled("concat") =>
        /\ ConcatList = <<>> => ~bt_result.ok
        /\ Len(ConcatList) = 1 => bt_result = Ok(ConcatList[1])
        /\ (ConcatList # <<>> /\ ConcatSameSchemas) =>
              /\ bt_result.ok
              /\ bt_result.val.schema = ConcatList[1].schema
              /\ bt_result.val.num_rows =
                    SumSeq([i \in DOMAIN ConcatList |-> ConcatList[i].num_rows])
              /\ Rows(bt_result.val) = AllRows(ConcatList)
        /\ (ConcatList # <<>> /\ ~ConcatSameSchemas) => ~bt_result.ok

\* ------------------------------------------------------ Project: the inputs

ProjectSchema == <<Field("p", "Int32", FALSE), Field("q", "Int32", TRUE)>>
ProjectRows == {<<Some(p), q>> : p \in {1, 2}, q \in {None, Some(5)}}
ProjectNames == SeqsUpTo({"p", "q", "zz"}, 2)

InitProject ==
    /\ pc = "start"
    /\ \E rows \in SeqsUpTo(ProjectRows, MaxProjectRows) :
         proj_input = BatchOfRows(ProjectSchema, rows)
    /\ proj_op \in {[column_names |-> names] : names \in ProjectNames}
    /\ proj_result = Idle
    /\ left_batches = Idle /\ right_batches = Idle /\ join_op = Idle
    /\ join_pairs = Idle /\ join_result = Idle
    /\ agg_plan = Idle /\ agg_inputs = Idle /\ agg_op = Idle /\ agg_groups = Idle
    /\ agg_result = Idle /\ agg_via = Idle
    /\ filter_input = Idle /\ filter_op = Idle /\ filter_result = Idle
    /\ sort_inputs = Idle /\ sort_op = Idle /\ sort_result = Idle
    /\ ParquetIdle /\ BatchIdle /\ ExecIdle

\* The caller builds the operator from the schema of its input batch
ProjectNew ==
    /\ pc = "start"
    /\ LET made == ProjectOperator_new(proj_op.column_names, proj_input.schema)
       IN IF made.ok
          THEN /\ proj_op' = made.val
               /\ pc' = "built"
               /\ UNCHANGED proj_result
          ELSE /\ proj_result' = made
               /\ pc' = "done"
               /\ UNCHANGED proj_op
    /\ UNCHANGED <<proj_input, joinVars, aggVars, filterVars, sortVars,
                   parquetVars, batchVars, execVars>>

\* ProjectOperator::execute
ProjectExecute ==
    /\ pc = "built"
    /\ proj_result' = project_execute(proj_op, proj_input)
    /\ pc' = "done"
    /\ UNCHANGED <<proj_input, proj_op, joinVars, aggVars, filterVars, sortVars,
                   parquetVars, batchVars, execVars>>

NextProject == ProjectNew \/ ProjectExecute

SpecProject == InitProject /\ [][NextProject]_vars

\* ------------------------------------------------------ Project: the claims

ProjectDone == pc = "done"
ProjectBuilt == "schema" \in DOMAIN proj_op
ProjNames == proj_op.column_names

\* the position of the k-th requested name in the input schema
ProjPos(k) == FieldIndex(proj_input.schema, ProjNames[k])

\* C15: ProjectOperator::new fails iff some requested name is absent from the
\* input schema; otherwise the output schema lists the requested fields in the
\* requested order (a repeated name twice), and execute returns exactly those
\* columns in that order, with all rows of the input in their original order.
C15_ProjectSelectsRequestedColumns ==
    ProjectDone =>
        /\ ProjectBuilt <=> \A k \in DOMAIN ProjNames :
                               \E f \in DOMAIN proj_input.schema :
                                  proj_input.schema[f].name = ProjNames[k]
        /\ ProjectBuilt =>
              /\ proj_op.schema = [k \in DOMAIN ProjNames |-> proj_input.schema[ProjPos(k)]]
              /\ proj_result.ok
              /\ proj_result.val.schema = proj_op.schema
              /\ proj_result.val.columns =
                    [k \in DOMAIN ProjNames |-> proj_input.columns[ProjPos(k)]]
              /\ proj_result.val.num_rows = proj_input.num_rows
              /\ Rows(proj_result.val) =
                    [r \in 1..proj_input.num_rows |->
                        [k \in DOMAIN ProjNames |-> Row(proj_input, r)[ProjPos(k)]]]

\* the rows of the output of execute_join, and the output as a list of batches
JoinOut == ResultRows(join_result)
JoinLeftRows == AllRows(left_batches)
JoinRightRows == AllRows(right_batches)

\* C18: empty sides.  A left input with no batches or no rows gives an empty
\* list for both join types; an empty right input gives, under Left, exactly
\* one batch with all left rows in order and every right column null, and
\* under Inner an empty list; and a join with no output tuple returns an empty
\* list, never a zero-row batch.
C18_JoinEmptySides ==
    JoinDone =>
        /\ join_result.ok
        /\ JoinLeftRows = <<>> => join_result.val = <<>>
        /\ (JoinLeftRows # <<>> /\ JoinRightRows = <<>> /\ join_op.join_type = "Left") =>
              /\ Len(join_result.val) = 1
              /\ join_result.val[1].schema = join_op.schema
              /\ JoinOut = [r \in DOMAIN JoinLeftRows |-> JoinLeftRows[r] \o <<None, None>>]
        /\ (JoinRightRows = <<>> /\ join_op.join_type = "Inner") => join_result.val = <<>>
        /\ JoinOut = <<>> => join_result.val = <<>>

\* the left row (its id, column 1) and the right row (its payload, column 4,
\* which grows with the right row index) an output row comes from
OutLeft(row) == Unwrap(row[1])
OutRight(row) == row[4]

\* C19: the join output is one batch in left-row-major order: the rows that
\* come from left row i stand before those from left row j whenever i < j, and
\* the rows of one left row list its matching right rows in increasing right
\* row index.
C19_JoinOutputLeftRowMajor ==
    (JoinDone /\ join_result.ok) =>
        /\ Len(join_result.val) <= 1
        /\ JoinOut # <<>> => Len(join_result.val) = 1
        /\ \A i, j \in DOMAIN JoinOut :
             i < j => \/ OutLeft(JoinOut[i]) < OutLeft(JoinOut[j])
                      \/ /\ OutLeft(JoinOut[i]) = OutLeft(JoinOut[j])
                         /\ IsSome(OutRight(JoinOut[i])) /\ IsSome(OutRight(JoinOut[j]))
                         /\ Unwrap(OutRight(JoinOut[i])) < Unwrap(OutRight(JoinOut[j]))

\* C19 witness: two left rows that each match the same two right rows give
\* four output rows
C19_Witness ==
    /\ JoinDone /\ join_result.ok
    /\ Len(JoinLeftRows) = 2 /\ Len(JoinRightRows) = 2 /\ Len(JoinOut) = 4
    /\ Len(left_batches) = 2 /\ Len(right_batches) = 2

\* a scan was asked for, and the ScanOperator was built
PqScanAsked == "projection" \in DOMAIN pq_scan
PqScanBuilt == "schema" \in DOMAIN pq_scan

\* the file's field called name
PqField(name) == pq_file.schema[FieldIndex(pq_file.schema, name)]

\* C20: with a projection [c1, ..., ck], every batch the scan returns has the
\* schema of exactly the fields c1, ..., ck in the given order, which is
\* ScanOperator.schema(); and ScanOperator::new fails when a projected name is
\* not a column of the file.
C20_ScanProjectionOrder ==
    (PqDone /\ PqScanAsked /\ IsSome(pq_scan.projection)) =>
        LET columns == Unwrap(pq_scan.projection)
        IN /\ (\E k \in DOMAIN columns : FieldIndex(pq_file.schema, columns[k]) = 0)
                 => (~PqScanBuilt /\ ~pq_result.ok)
           /\ (PqScanBuilt /\ pq_result.ok) =>
                 \A b \in DOMAIN pq_result.val :
                    /\ pq_result.val[b].schema = [k \in DOMAIN columns |-> PqField(columns[k])]
                    /\ pq_result.val[b].schema = pq_scan.schema

\* ----------------------------------------------------------------- Executor

\* LogicalPlan
Scan(path, projection) == [kind |-> "Scan", path |-> path, projection |-> projection]
Project(input, columns) == [kind |-> "Project", input |-> input, columns |-> columns]
Filter(input, predicate) == [kind |-> "Filter", input |-> input, predicate |-> predicate]
Aggregate(input, group_by, aggs) ==
    [kind |-> "Aggregate", input |-> input, group_by |-> group_by, aggs |-> aggs]
Sort(input, order_by) == [kind |-> "Sort", input |-> input, order_by |-> order_by]
Join(left, right, join_type, on) ==
    [kind |-> "Join", left |-> left, right |-> right, join_type |-> join_type, on |-> on]

\* a Join that executes its right child before its left child
children_right_first(plan) ==
    CASE plan.kind = "Scan" -> <<>>
      [] plan.kind = "Join" -> <<plan.right, plan.left>>
      [] OTHER -> <<plan.input>>

\* the plans a node executes before its own work, in the order it executes them
children(plan) ==
    CASE plan.kind = "Scan" -> <<>>
      [] plan.kind = "Join" -> <<plan.left, plan.right>>
      [] OTHER -> <<plan.input>>

\* ParquetReader::read_all_parallel: one task per row group, each returning
\* what read_row_group returns, collected and flattened
read_all_parallel(reader) ==
    LET tasks == [i \in 1..num_row_groups(reader) |-> [result |-> read_row_group(reader, i)]]
    IN flatten_results(collect_results(tasks, <<>>), 1, <<>>)

\* ParquetReader::read_all
read_all(reader) ==
    IF num_row_groups(reader) = 0 THEN Ok(<<>>)
    ELSE IF reader.config.parallel /\ num_row_groups(reader) > 1
    THEN read_all_parallel(reader)
    ELSE read_all_sequential(reader)

\* ScanOperator::read_all
scan_read_all(file, op) ==
    scan_convert(read_all(from_path_with_config(file, op.config).val))

\* collect() of an iterator of Results into a Result of a Vec: the first error,
\* or all the values
try_collect(results) ==
    IF \E k \in DOMAIN results : ~results[k].ok
    THEN results[CHOOSE k \in DOMAIN results :
                    ~results[k].ok /\ \A j \in 1..(k - 1) : results[j].ok]
    ELSE Ok([k \in DOMAIN results |-> results[k].val])

\* Executor::get_schema
RECURSIVE get_schema(_, _)
get_schema(files, plan) ==
    CASE plan.kind = "Scan" ->
           LET s == reader_schema(from_path(files[plan.path]).val).val
           IN IF IsNone(plan.projection) THEN Ok(s)
              ELSE LET cols == Unwrap(plan.projection)
                   IN IF \E k \in DOMAIN cols : FieldIndex(s, cols[k]) = 0
                      THEN Err("Column not found")
                      ELSE Ok([k \in DOMAIN cols |-> s[FieldIndex(s, cols[k])]])
      [] plan.kind = "Project" ->
           LET in_s == get_schema(files, plan.input)
           IN IF ~in_s.ok THEN in_s
              ELSE IF \E k \in DOMAIN plan.columns : FieldIndex(in_s.val, plan.columns[k]) = 0
              THEN Err("Column not found")
              ELSE Ok([k \in DOMAIN plan.columns |->
                         in_s.val[FieldIndex(in_s.val, plan.columns[k])]])
      [] plan.kind \in {"Filter", "Sort"} -> get_schema(files, plan.input)
      [] OTHER -> Err("get_schema not supported for Aggregate/Join")

\* Executor::execute, the Scan arm
execute_scan(files, plan) ==
    LET scan_op == ScanOperator_new(files[plan.path], plan.projection)
    IN IF ~scan_op.ok THEN scan_op ELSE scan_read_all(files[plan.path], scan_op.val)

\* Executor::execute, the Project arm, given the child's batches
execute_project(plan, input_batches) ==
    IF input_batches = <<>> THEN Ok(<<>>)
    ELSE LET project_op == ProjectOperator_new(plan.columns, input_batches[1].schema)
         IN IF ~project_op.ok THEN project_op
            ELSE try_collect([k \in DOMAIN input_batches |->
                                project_execute(project_op.val, input_batches[k])])

\* Executor::execute, the Filter arm: the empty output batches are dropped
execute_filter(plan, input_batches) ==
    IF input_batches = <<>> THEN Ok(<<>>)
    ELSE LET filter_op_ == FilterOperator_new(plan.predicate, input_batches[1].schema)
             filtered_batches == try_collect([k \in DOMAIN input_batches |->
                                    filter_execute(filter_op_.val, input_batches[k])])
         IN IF ~filter_op_.ok THEN filter_op_
            ELSE IF ~filtered_batches.ok THEN filtered_batches
            ELSE Ok(SelectSeq(filtered_batches.val, LAMBDA b : ~is_empty(b)))

\* Executor::execute, the Sort arm.  The sort kernel promises no order among
\* equal rows but is a deterministic function of its input, so the index
\* array is one fixed admissible choice
execute_sort(plan, input_batches) ==
    IF input_batches = <<>> THEN Ok(<<>>)
    ELSE LET sort_op_ == SortOperator_new(plan.order_by, input_batches[1].schema)
         IN IF ~sort_op_.ok THEN sort_op_
            ELSE sort_execute_many(sort_op_.val, input_batches,
                    CHOOSE indices \in sort_execute_many_indices(sort_op_.val, input_batches) :
                        TRUE)

\* Executor::execute, the Join arm, given the batches of both sides
execute_join_node(files, plan, left_batches_, right_batches_) ==
    IF left_batches_ = <<>> THEN Ok(<<>>)
    ELSE LET right_schema == IF right_batches_ # <<>> THEN Ok(right_batches_[1].schema)
                             ELSE get_schema(files, plan.right)
         IN IF ~right_schema.ok
            THEN Err("Join right side has no batches and schema could not be determined")
            ELSE LET join_op_ == HashJoinOperator_new(plan.on[1], plan.on[2], plan.join_type,
                                                      left_batches_[1].schema, right_schema.val)
                 IN IF ~join_op_.ok THEN join_op_
                    ELSE execute_join(join_op_.val, left_batches_, right_batches_)

\* the iteration orders the HashMap of an Aggregate node can have in one
\* execution (one dummy order for the other nodes and when no map is built)
node_orders(plan, inputs) ==
    IF plan.kind = "Aggregate"
    THEN LET made == executor_agg_op(plan.group_by, plan.aggs, inputs[1])
         IN IF made.ok THEN IterationOrders(aggregate_keys(made.val, inputs[1])) ELSE {<<>>}
    ELSE {<<>>}

\* Executor::execute on one node, after its children returned `inputs`
execute_node(files, plan, inputs, order) ==
    CASE plan.kind = "Scan" -> execute_scan(files, plan)
      [] plan.kind = "Project" -> execute_project(plan, inputs[1])
      [] plan.kind = "Filter" -> execute_filter(plan, inputs[1])
      [] plan.kind = "Aggregate" ->
           executor_aggregate(plan.group_by, plan.aggs, inputs[1], order)
      [] plan.kind = "Sort" -> execute_sort(plan, inputs[1])
      [] OTHER -> execute_join_node(files, plan, inputs[1], inputs[2])

\* ---------------------------------------------------- Executor: the inputs

\* one Parquet file, at path "t", with columns a (Int32) and b (Int64)
ExScanAll == Scan("t", None)
ExCount == <<Aggregation("Count", None, "n")>>
ExAGt(v) == BinaryExpr(Column("a"), "Gt", Literal("Int32", v))

\* sub-plans that return no batch: one of each kind ("u" is a file without
\* row groups; no row has a > 99)
ExNoRow == Filter(ExScanAll, ExAGt(99))
ExNoBatchPlans ==
    { Scan("u", None),
      Project(ExNoRow, <<"a">>),
      ExNoRow,
      Sort(ExNoRow, <<OrderByExpr("a", TRUE)>>),
      Aggregate(Aggregate(ExNoRow, <<"a">>, ExCount), <<"a">>, ExCount),
      Join(ExNoRow, ExScanAll, "Inner", <<"a", "a">>) }

ExPlans ==
    { ExScanAll,
      Scan("t", Some(<<"b">>)),
      Project(ExScanAll, <<"b">>),
      Project(ExScanAll, <<"zz">>),
      Filter(ExScanAll, ExAGt(1)),
      Filter(Scan("t", Some(<<"zz">>)), ExAGt(1)),
      Filter(ExScanAll, Column("a")),
      Project(Filter(ExScanAll, BinaryExpr(Column("zz"), "Eq", Literal("Int32", 1))), <<"a">>),
      Aggregate(ExScanAll, <<"a">>, ExCount),
      Aggregate(Filter(ExScanAll, ExAGt(99)), <<"a">>, ExCount),
      Project(Aggregate(ExScanAll, <<"a">>, ExCount), <<"n">>),
      Sort(Aggregate(ExScanAll, <<"a">>, ExCount), <<OrderByExpr("a", FALSE)>>),
      Sort(ExScanAll, <<OrderByExpr("a", FALSE)>>),
      Join(ExScanAll, Scan("t", Some(<<"a">>)), "Inner", <<"a", "a">>),
      Join(ExScanAll, Filter(ExScanAll, ExAGt(99)), "Left", <<"a", "a">>),
      Join(ExScanAll, Aggregate(Filter(ExScanAll, ExAGt(99)), <<"a">>, <<>>), "Left",
           <<"a", "a">>),
      Join(Project(ExScanAll, <<"zz">>), ExScanAll, "Inner", <<"a", "a">>),
      Sort(Aggregate(Filter(ExScanAll, ExAGt(99)), <<"a">>, ExCount),
           <<OrderByExpr("a", TRUE)>>),
      Project(Aggregate(Filter(ExScanAll, ExAGt(99)), <<"a">>, ExCount), <<"n">>),
      Join(Filter(ExScanAll, ExAGt(1)),
           Filter(ExScanAll, BinaryExpr(Column("a"), "Le", Literal("Int32", 1))),
           "Inner", <<"a", "a">>) }
    \cup {Join(ExScanAll, right, join_type, <<"a", "a">>) :
             right \in ExNoBatchPlans, join_type \in {"Inner", "Left"}}

\* the files a plan is executed over: those of PqFiles with at most
\* MaxExecRows rows
ExFiles ==
    {file \in PqFiles :
        SumSeq([g \in DOMAIN file.row_groups |-> Len(file.row_groups[g])]) <= MaxExecRows}

InitExec ==
    /\ pc = "start"
    /\ \E plan \in ExPlans, file \in ExFiles :
         ex_plan = [plan |-> plan,
                    files |-> [path \in {"t", "u"} |->
                                 IF path = "t" THEN file
                                 ELSE [schema |-> PqSchema, row_groups |-> <<>>,
                                       damaged |-> {}]]]
    /\ ex_frames = <<>>
    /\ ex_runs = <<>>
    /\ ex_calls = <<>>
    /\ left_batches = Idle /\ right_batches = Idle /\ join_op = Idle
    /\ join_pairs = Idle /\ join_result = Idle
    /\ agg_plan = Idle /\ agg_inputs = Idle /\ agg_op = Idle /\ agg_groups = Idle
    /\ agg_result = Idle /\ agg_via = Idle
    /\ filter_input = Idle /\ filter_op = Idle /\ filter_result = Idle
    /\ sort_inputs = Idle /\ sort_op = Idle /\ sort_result = Idle
    /\ ParquetIdle /\ BatchIdle /\ ProjectIdle

\* a caller that executes Filter(p) over Project(C) and then Project(C) over
\* Filter(p), where p names only columns of C
ExColumnLists == {<<>>, <<"a">>, <<"a", "b">>, <<"b", "a">>, <<"a", "a">>}
ExPredicates ==
    {ExAGt(1), ExAGt(99), Literal("Boolean", TRUE), Literal("Boolean", FALSE),
     BinaryExpr(Column("b"), "Le", Literal("Int64", 10))}

RECURSIVE ExprColumns(_)
ExprColumns(expr) ==
    CASE expr.kind = "Column" -> {expr.name}
      [] expr.kind = "Literal" -> {}
      [] OTHER -> ExprColumns(expr.left) \cup ExprColumns(expr.right)

InitCommute ==
    /\ pc = "start"
    /\ \E columns \in ExColumnLists, predicate \in ExPredicates, file \in PqFiles :
         /\ ExprColumns(predicate) \subseteq Range(columns)
         /\ ex_plan = [plan |-> Filter(Project(ExScanAll, columns), predicate),
                       then |-> Project(Filter(ExScanAll, predicate), columns),
                       files |-> [path \in {"t"} |-> file]]
    /\ ex_frames = <<>>
    /\ ex_runs = <<>>
    /\ ex_calls = <<>>
    /\ left_batches = Idle /\ right_batches = Idle /\ join_op = Idle
    /\ join_pairs = Idle /\ join_result = Idle
    /\ agg_plan = Idle /\ agg_inputs = Idle /\ agg_op = Idle /\ agg_groups = Idle
    /\ agg_result = Idle /\ agg_via = Idle
    /\ filter_input = Idle /\ filter_op = Idle /\ filter_result = Idle
    /\ sort_inputs = Idle /\ sort_op = Idle /\ sort_result = Idle
    /\ ParquetIdle /\ BatchIdle /\ ProjectIdle

\* the call of execute that is running now
ExTop == ex_frames[Len(ex_frames)]

\* a call of execute returns `result`: to the call that made it, or, from the
\* call on the whole plan, to the caller of the Executor
ExReturn(result) ==
    LET rest == SubSeq(ex_frames, 1, Len(ex_frames) - 1)
    IN /\ ex_calls' = Append(ex_calls, [plan |-> ExTop.plan, inputs |-> ExTop.inputs,
                                        result |-> result])
       /\ IF rest = <<>>
          THEN /\ ex_frames' = <<>>
               /\ ex_runs' = Append(ex_runs, result)
               /\ pc' = IF Len(ex_runs) = 1 THEN "done" ELSE "start"
          ELSE /\ ex_frames' = [rest EXCEPT ![Len(rest)].inputs = Append(@, result)]
               /\ UNCHANGED <<pc, ex_runs>>

\* the plan the caller executes next: the same plan again, or the second plan
\* of a caller that compares two plans
ExNextPlan ==
    IF ex_runs # <<>> /\ "then" \in DOMAIN ex_plan THEN ex_plan.then ELSE ex_plan.plan

\* Executor::execute(plan) is called on the whole plan
ExecStart ==
    /\ pc = "start"
    /\ "df" \in DOMAIN ex_plan => ex_runs = <<>>
    /\ ex_frames' = <<[plan |-> ExNextPlan, inputs |-> <<>>]>>
    /\ ex_calls' = <<>>
    /\ pc' = "running"
    /\ UNCHANGED <<ex_plan, ex_runs, joinVars, aggVars, filterVars, sortVars,
                   parquetVars, batchVars, projVars>>

\* self.execute(input): the node executes its next child
ExecDescend ==
    /\ pc = "running"
    /\ Len(ExTop.inputs) < Len(children(ExTop.plan))
    /\ \A k \in DOMAIN ExTop.inputs : ExTop.inputs[k].ok
    /\ ex_frames' = Append(ex_frames, [plan |-> children(ExTop.plan)[Len(ExTop.inputs) + 1],
                                       inputs |-> <<>>])
    /\ UNCHANGED <<pc, ex_plan, ex_runs, ex_calls, joinVars, aggVars, filterVars, sortVars,
                   parquetVars, batchVars, projVars>>

\* self.execute(input)?: the error of a child is returned at once
ExecPropagate ==
    /\ pc = "running"
    /\ ExTop.inputs # <<>>
    /\ ~ExTop.inputs[Len(ExTop.inputs)].ok
    /\ ExReturn(ExTop.inputs[Len(ExTop.inputs)])
    /\ UNCHANGED <<ex_plan, joinVars, aggVars, filterVars, sortVars,
                   parquetVars, batchVars, projVars>>

\* all the children of the running call returned batches
ExecNodeReady ==
    /\ pc = "running"
    /\ Len(ExTop.inputs) = Len(children(ExTop.plan))
    /\ \A k \in DOMAIN ExTop.inputs : ExTop.inputs[k].ok

\* the node's own work, once all its children returned batches
ExecNode ==
    /\ ExecNodeReady
    /\ LET inputs == [k \in DOMAIN ExTop.inputs |-> ExTop.inputs[k].val]
       IN \E order \in node_orders(ExTop.plan, inputs) :
            ExReturn(execute_node(ex_plan.files, ExTop.plan, inputs, order))
    /\ UNCHANGED <<ex_plan, joinVars, aggVars, filterVars, sortVars,
                   parquetVars, batchVars, projVars>>

NextExec == ExecStart \/ ExecDescend \/ ExecPropagate \/ ExecNode

SpecExec == InitExec /\ [][NextExec]_vars

SpecCommute == InitCommute /\ [][NextExec]_vars

\* execute is a sequential recursion on the caller's thread: a step that can
\* be taken is taken.  The last conjunct is WF_vars(ExecNode) with the
\* action's enabling condition written out: the node's own work is a total
\* function of its inputs, so the step is possible exactly when ExecNodeReady
ExecFairness ==
    /\ WF_vars(ExecStart)
    /\ WF_vars(ExecDescend)
    /\ WF_vars(ExecPropagate)
    /\ ([]<>(~ExecNodeReady) \/ []<><<ExecNode>>_vars)

SpecExecLive == InitExec /\ [][NextExec]_vars /\ ExecFairness

\* ---------------------------------------------------- Executor: the claims

\* both executions of the plan returned
ExecDone == pc = "done"

\* C12: two executions of Executor.execute(P) on an unchanged input return
\* identical results: the same number of batches, the same schemas and the
\* same rows in the same order, also when P holds an Aggregate node that no
\* Sort follows.
C12_ExecuteIsDeterministic ==
    ExecDone =>
        /\ ex_runs[1].ok = ex_runs[2].ok
        /\ ex_runs[1].ok =>
             /\ Len(ex_runs[1].val) = Len(ex_runs[2].val)
             /\ \A b \in DOMAIN ex_runs[1].val :
                  /\ ex_runs[1].val[b].schema = ex_runs[2].val[b].schema
                  /\ Rows(ex_runs[1].val[b]) = Rows(ex_runs[2].val[b])

\* the calls of this execution on a node of the given kind whose children all
\* returned batches and that returned batches itself
ExOkCalls(kind) ==
    {k \in DOMAIN ex_calls :
        /\ ex_calls[k].plan.kind = kind
        /\ Len(ex_calls[k].inputs) = Len(children(ex_calls[k].plan))
        /\ \A i \in DOMAIN ex_calls[k].inputs : ex_calls[k].inputs[i].ok
        /\ ex_calls[k].result.ok}

\* the batches a call got from its i-th child, and the batches it returned
ExIn(k, i) == ex_calls[k].inputs[i].val
ExOut(k) == ex_calls[k].result.val

\* the output of a Filter node has no zero-row batch, and its rows are rows of
\* the input in input order (the rows of a table are all different)
FilterNodeCompact ==
    \A k \in ExOkCalls("Filter") :
        /\ \A b \in DOMAIN ExOut(k) : ExOut(k)[b].num_rows > 0
        /\ Len(ExOut(k)) <= Len(ExIn(k, 1))
        /\ AllRows(ExOut(k)) =
              SelectSeq(AllRows(ExIn(k, 1)), LAMBDA row : row \in Range(AllRows(ExOut(k))))

\* a Project node returns one batch per input batch, with the rows of that batch
ProjectNodeKeepsBatches ==
    \A k \in ExOkCalls("Project") :
        /\ Len(ExOut(k)) = Len(ExIn(k, 1))
        /\ \A b \in DOMAIN ExOut(k) : ExOut(k)[b].num_rows = ExIn(k, 1)[b].num_rows

\* a Sort node that got at least one batch returns exactly one batch
SortNodeKeepsBatch ==
    \A k \in ExOkCalls("Sort") : ExIn(k, 1) # <<>> => Len(ExOut(k)) = 1

\* a Join node that got at least one batch from each side returns its batch,
\* with or without rows
JoinNodeKeepsBatch ==
    \A k \in ExOkCalls("Join") :
        (ExIn(k, 1) # <<>> /\ ExIn(k, 2) # <<>>) => Len(ExOut(k)) = 1

\* C21: the output of a Filter node never holds a zero-row batch and keeps the
\* surviving batches in input order; Project, Sort and Join never drop a batch
\* for being empty: Project returns as many batches as its input, in the same
\* order, and Sort over a non-empty list of batches returns exactly one batch
\* even when it has no rows.
C21_EmptyBatchPolicy ==
    /\ FilterNodeCompact
    /\ ProjectNodeKeepsBatches
    /\ SortNodeKeepsBatch
    /\ JoinNodeKeepsBatch

\* ------------------------------------------- a read or an execution: errors

\* A caller either reads a file through the reader or a ScanOperator, or
\* executes a plan
InitReadOrExecute == InitParquet \/ InitExec

NextReadOrExecute ==
    \/ (DOMAIN ex_plan = {} /\ NextParquet)
    \/ (DOMAIN ex_plan # {} /\ NextExec)

SpecReadOrExecute == InitReadOrExecute /\ [][NextReadOrExecute]_vars

\* reading the row groups of the file under the configuration fails somewhere
SomeRowGroupFails(file, config) ==
    LET reader == [file |-> file, config |-> config]
    IN \E g \in 1..num_row_groups(reader) : ~read_row_group(reader, g).ok

\* read_all returned although a worker failed or a row group cannot be read
ReadFailed ==
    /\ DOMAIN ex_plan = {} /\ pc = "done" /\ "config" \in DOMAIN pq_scan
    /\ \/ \E i \in DOMAIN pq_tasks : ~pq_tasks[i].result.ok
       \/ SomeRowGroupFails(pq_file, pq_scan.config)

\* a call of execute that is a Scan of a file with a row group that fails
ScanCallFailed(k) ==
    /\ ex_calls[k].plan.kind = "Scan"
    /\ LET file == ex_plan.files[ex_calls[k].plan.path]
           scan_op == ScanOperator_new(file, ex_calls[k].plan.projection)
       IN ~scan_op.ok \/ SomeRowGroupFails(file, scan_op.val.config)

\* a call of execute on a Project or Filter node whose operator fails on one
\* of the batches of the child
OperatorCallFailed(k) ==
    /\ ex_calls[k].plan.kind \in {"Project", "Filter"}
    /\ ex_calls[k].inputs # <<>> /\ ex_calls[k].inputs[1].ok
    /\ LET plan == ex_calls[k].plan
           batches == ex_calls[k].inputs[1].val
       IN \E b \in DOMAIN batches :
            IF plan.kind = "Filter"
            THEN ~filter_execute(FilterOperator_new(plan.predicate, batches[1].schema).val,
                                 batches[b]).ok
            ELSE ~select_columns_by_name(batches[b], plan.columns).ok

\* C22: no partial results.  When a step fails (a row group with an
\* unsupported data type or a decode error in a worker of the parallel scan,
\* an operator on a batch, a child plan), read_all and Executor.execute return
\* an error and no batch, whatever was read or computed before and whatever
\* the order in which the workers finished.
C22_NoPartialResults ==
    /\ ReadFailed => ~pq_result.ok
    /\ DOMAIN ex_plan # {} =>
         \A k \in DOMAIN ex_calls :
            /\ ScanCallFailed(k) => ~ex_calls[k].result.ok
            /\ OperatorCallFailed(k) => ~ex_calls[k].result.ok
            /\ (\E i \in DOMAIN ex_calls[k].inputs : ~ex_calls[k].inputs[i].ok)
                  => ~ex_calls[k].result.ok
            /\ ~ex_calls[k].result.ok =>
                  /\ \A j \in DOMAIN ex_calls : j > k => ~ex_calls[j].result.ok
                  /\ (ex_frames = <<>> /\ ex_runs # <<>>) => ~ex_runs[Len(ex_runs)].ok

\* a parallel read of two row groups where the worker of the second group
\* finished first with its batches and the worker of the first group failed
\* after it had decoded a batch
C22_Witness ==
    /\ ReadFailed
    /\ pq_completed = <<2, 1>>
    /\ pq_tasks[2].result.ok /\ pq_tasks[2].result.val # <<>>
    /\ ~pq_tasks[1].result.ok /\ pq_tasks[1].batches # <<>>

\* ------------------------------------------- Filter: the predicates it refuses

\* an operand of And/Or that is not a boolean array: a column of another type
\* (or no column), or a literal of another type
NotBooleanOperand(expr) ==
    \/ /\ expr.kind = "Column"
       /\ \/ FieldIndex(filter_input.schema, expr.name) = 0
          \/ filter_input.schema[FieldIndex(filter_input.schema, expr.name)].dtype # "Boolean"
    \/ /\ expr.kind = "Literal" /\ expr.vtype # "Boolean"

\* the predicates FilterOperator.execute must refuse
RefusedPredicate(expr) ==
    \/ expr.kind = "Column"
    \/ expr.kind = "Literal" /\ expr.vtype # "Boolean"
    \/ /\ expr.kind = "BinaryExpr" /\ expr.op \in {"And", "Or"}
       /\ NotBooleanOperand(expr.left) \/ NotBooleanOperand(expr.right)

\* C23: FilterOperator.execute returns an error and no batch, on every input
\* batch, when the predicate is a bare Column (a Boolean column included), a
\* non-boolean Literal, or an And/Or with an operand that is not a boolean
\* array; the Boolean literal true keeps every row and false removes every row.
C23_FilterRefusesNonBooleanPredicates ==
    FilterDone =>
        /\ RefusedPredicate(filter_op.predicate) => ~filter_result.ok
        /\ filter_op.predicate = Literal("Boolean", TRUE) =>
              /\ filter_result.ok
              /\ Rows(filter_result.val) = Rows(filter_input)
        /\ filter_op.predicate = Literal("Boolean", FALSE) =>
              /\ filter_result.ok
              /\ filter_result.val.num_rows = 0

\* a batch with a row whose flag is true, filtered by the bare column flag
C23_Witness ==
    /\ FilterDone
    /\ filter_op.predicate = Column("flag")
    /\ filter_input.num_rows = 2
    /\ Some(TRUE) \in Range(filter_input.columns[2])
    /\ ~filter_result.ok

\* --------------------------------------------- Aggregate: unknown columns

\* the group-by list or an aggregation names a column the input does not have
AggNamesUnknownColumn ==
    \/ \E g \in DOMAIN AggGroupBy : FieldIndex(agg_plan.input_schema, AggGroupBy[g]) = 0
    \/ \E a \in DOMAIN AggAggs :
         /\ IsSome(AggAggs[a].column)
         /\ FieldIndex(agg_plan.input_schema, Unwrap(AggAggs[a].column)) = 0

\* C24: an Aggregate whose group-by list or whose aggregation (Sum, Avg, Min,
\* Max or Count(col)) names a column that is not in the input schema fails, at
\* construction or at execution, and produces no output batch (stated for an
\* input of at least one batch, whose schema is the input schema).
C24_AggregateUnknownColumnFails ==
    (AggDone /\ agg_inputs # <<>> /\ AggNamesUnknownColumn) => ~agg_result.ok

\* ------------------------------------------------- HashJoin: unknown keys

\* the left key is no column of the left schema, or the right key none of the
\* right schema
JoinKeyUnknown ==
    \/ FieldIndex(LeftSchema, join_op.left_key) = 0
    \/ FieldIndex(RightSchema, join_op.right_key) = 0

\* C25: a hash join whose left key is not a column of the left schema, or
\* whose right key is not a column of the right schema, fails for every join
\* type and all inputs with a non-empty left side, a Left join with an empty
\* right input included.
C25_JoinUnknownKeyFails ==
    (JoinDone /\ left_batches # <<>> /\ JoinKeyUnknown) => ~join_result.ok

\* ------------------------------------------ Executor: filter and projection

\* two results are the same outcome: both errors, or the same list of batches
\* (same schemas, same rows, same order)
SameBatches(r1, r2) ==
    /\ r1.ok = r2.ok
    /\ r1.ok =>
         /\ Len(r1.val) = Len(r2.val)
         /\ \A b \in DOMAIN r1.val :
              /\ r1.val[b].schema = r2.val[b].schema
              /\ r1.val[b].num_rows = r2.val[b].num_rows
              /\ Rows(r1.val[b]) = Rows(r2.val[b])

\* C26: filter and projection commute in the executor.  For every input, every
\* column list C and every predicate p that names only columns of C, executing
\* Filter(p) over Project(C) gives the same list of batches as executing
\* Project(C) over Filter(p), also when the filter removes every row of some
\* or all batches.
C26_FilterProjectCommute ==
    (ExecDone /\ "then" \in DOMAIN ex_plan) => SameBatches(ex_runs[1], ex_runs[2])

\* ---------------------------------------------------------------- DataFrame

\* DataFrame::from_parquet
from_parquet(path) == Ok([plan |-> Scan(path, None)])

\* DataFrame::select
select(df, columns) == [plan |-> Project(df.plan, columns)]

\* DataFrame::filter
filter(df, predicate) == [plan |-> Filter(df.plan, predicate)]

RECURSIVE df_evaluate_expr(_, _)
RECURSIVE df_evaluate_to_array(_, _)

\* dataframe.rs evaluate_expr: the boolean mask of an expression
df_evaluate_expr(batch, expr) ==
    CASE expr.kind = "Column" -> Err("Cannot evaluate column as boolean expression")
      [] expr.kind = "Literal" /\ expr.vtype = "Boolean" ->
            Ok(broadcast(expr.value, batch.num_rows))
      [] expr.kind = "BinaryExpr" ->
            LET left_array == df_evaluate_to_array(batch, expr.left)
            IN IF ~left_array.ok THEN left_array
               ELSE LET right_array == df_evaluate_to_array(batch, expr.right)
                    IN IF ~right_array.ok THEN right_array
                       ELSE IF expr.op \in ComparisonOps
                       THEN compare_dyn(expr.op, left_array.val, right_array.val)
                       ELSE LET left_bool == as_boolean_array(left_array.val)
                                right_bool == as_boolean_array(right_array.val)
                            IN IF ~left_bool.ok THEN left_bool
                               ELSE IF ~right_bool.ok THEN right_bool
                               ELSE Ok(boolean_kernel(expr.op, left_bool.val, right_bool.val))
      [] OTHER -> Err("Unsupported expression type")

\* dataframe.rs evaluate_to_array: the typed array of an expression
df_evaluate_to_array(batch, expr) ==
    CASE expr.kind = "Column" ->
            LET c == column_by_name(batch, expr.name)
            IN IF c = 0 THEN Err("Column not found")
               ELSE Ok([dtype |-> batch.schema[c].dtype, cells |-> batch.columns[c]])
      [] expr.kind = "Literal" ->
            Ok([dtype |-> expr.vtype, cells |-> broadcast(expr.value, batch.num_rows)])
      [] OTHER ->
            LET bool_array == df_evaluate_expr(batch, expr)
            IN IF ~bool_array.ok THEN bool_array
               ELSE Ok([dtype |-> "Boolean", cells |-> bool_array.val])

\* dataframe.rs apply_filter
apply_filter(batch, predicate) ==
    LET boolean_array == df_evaluate_expr(batch, predicate)
    IN IF ~boolean_array.ok THEN boolean_array
       ELSE try_new(batch.schema,
                    [c \in DOMAIN batch.columns |->
                        filter_kernel(batch.columns[c], boolean_array.val)])

\* the positions of the fields whose name is one of `columns`, in the order of
\* the schema (fields().iter().enumerate().filter_map(..contains..))
contained_indices(schema, columns) ==
    SelectSeq([k \in DOMAIN schema |-> k], LAMBDA k : schema[k].name \in Range(columns))

\* dataframe.rs execute_plan
RECURSIVE execute_plan(_, _)
execute_plan(files, plan) ==
    CASE plan.kind = "Scan" ->
           LET batches == scan_convert(read_all(from_path(files[plan.path]).val))
           IN IF ~batches.ok \/ IsNone(plan.projection) THEN batches
              ELSE IF batches.val = <<>> THEN Err("No batches to project")
              ELSE LET indices == contained_indices(batches.val[1].schema,
                                                    Unwrap(plan.projection))
                   IN try_collect([k \in DOMAIN batches.val |->
                                     select_columns(batches.val[k], indices)])
      [] plan.kind = "Project" ->
           LET input_batches == execute_plan(files, plan.input)
           IN IF ~input_batches.ok THEN input_batches
              ELSE IF input_batches.val = <<>> THEN Err("No batches to project")
              ELSE LET indices == contained_indices(input_batches.val[1].schema, plan.columns)
                   IN IF Len(indices) # Len(plan.columns) THEN Err("Some columns not found")
                      ELSE try_collect([k \in DOMAIN input_batches.val |->
                                          select_columns(input_batches.val[k], indices)])
      [] OTHER ->
           LET input_batches == execute_plan(files, plan.input)
               filtered_batches ==
                   try_collect([k \in DOMAIN input_batches.val |->
                                  apply_filter(input_batches.val[k], plan.predicate)])
           IN IF ~input_batches.ok THEN input_batches
              ELSE IF ~filtered_batches.ok THEN filtered_batches
              ELSE Ok(SelectSeq(filtered_batches.val, LAMBDA b : ~is_empty(b)))

\* DataFrame::collect
collect(files, df) == execute_plan(files, df.plan)

\* ---------------------------------------------------- DataFrame: the inputs

\* the frames built from one file with at most one select and one filter
DfColumnLists == ExColumnLists \cup {<<"zz">>}
DfPredicates == ExPredicates \cup {Column("a")}
DfFrames ==
    LET base == from_parquet("t").val
    IN {base}
       \cup {select(base, c) : c \in DfColumnLists}
       \cup {filter(base, p) : p \in DfPredicates}
       \cup {select(filter(base, p), c) : p \in DfPredicates, c \in DfColumnLists}
       \cup {filter(select(base, c), p) : p \in DfPredicates, c \in DfColumnLists}

\* a caller that builds a frame, hands its plan to Executor.execute and then
\* calls collect() on the frame
InitDataFrame ==
    /\ pc = "start"
    /\ \E df \in DfFrames, file \in PqFiles :
         ex_plan = [df |-> df, plan |-> df.plan, files |-> [path \in {"t"} |-> file]]
    /\ ex_frames = <<>>
    /\ ex_runs = <<>>
    /\ ex_calls = <<>>
    /\ left_batches = Idle /\ right_batches = Idle /\ join_op = Idle
    /\ join_pairs = Idle /\ join_result = Idle
    /\ agg_plan = Idle /\ agg_inputs = Idle /\ agg_op = Idle /\ agg_groups = Idle
    /\ agg_result = Idle /\ agg_via = Idle
    /\ filter_input = Idle /\ filter_op = Idle /\ filter_result = Idle
    /\ sort_inputs = Idle /\ sort_op = Idle /\ sort_result = Idle
    /\ ParquetIdle /\ BatchIdle /\ ProjectIdle

\* df.collect(), after the executor returned
DfCollect ==
    /\ pc = "start"
    /\ "df" \in DOMAIN ex_plan
    /\ Len(ex_runs) = 1
    /\ ex_runs' = Append(ex_runs, collect(ex_plan.files, ex_plan.df))
    /\ pc' = "done"
    /\ UNCHANGED <<ex_plan, ex_frames, ex_calls, joinVars, aggVars, filterVars, sortVars,
                   parquetVars, batchVars, projVars>>

NextDataFrame == NextExec \/ DfCollect

SpecDataFrame == InitDataFrame /\ [][NextDataFrame]_vars

\* ---------------------------------------------------- DataFrame: the claims

\* the frame's plan was executed by the Executor and by collect()
DfDone == pc = "done" /\ "df" \in DOMAIN ex_plan

\* C27: DataFrame.collect() runs the Executor: for every plan built with
\* from_parquet, select and filter, collect() returns the same outcome (the
\* same batches, or an error) as Executor.execute on the frame's plan,
\* including select lists whose names are not in file-schema order or are
\* repeated, and plans whose filter removes every row before a select.
C27_CollectRunsTheExecutor ==
    DfDone => SameBatches(ex_runs[1], ex_runs[2])

\* ------------------------------------------ Executor: join over no batches

\* the calls on a Join node whose left child returned at least one batch and
\* whose right child returned no batch
JoinCallsOverNoBatch ==
    {k \in DOMAIN ex_calls :
        /\ ex_calls[k].plan.kind = "Join"
        /\ Len(ex_calls[k].inputs) = 2
        /\ ex_calls[k].inputs[1].ok /\ ex_calls[k].inputs[2].ok
        /\ ExIn(k, 1) # <<>>
        /\ ExIn(k, 2) = <<>>}

\* the row is `left` followed by one or more nulls
PaddedWithNulls(row, left) ==
    /\ Len(row) > Len(left)
    /\ SubSeq(row, 1, Len(left)) = left
    /\ \A c \in (Len(left) + 1)..Len(row) : row[c] = None

\* C28: Executor.execute on a Join whose left side yields at least one batch
\* and whose right side yields zero batches returns without error, whatever
\* the right sub-plan is (Scan, Project, Filter, Sort, Aggregate or Join): an
\* empty list for Inner, and for Left one batch of all the left rows with null
\* right columns.
C28_JoinOverNoRightBatch ==
    \A k \in JoinCallsOverNoBatch :
        /\ ex_calls[k].result.ok
        /\ ex_calls[k].plan.join_type = "Inner" => ExOut(k) = <<>>
        /\ ex_calls[k].plan.join_type = "Left" =>
             /\ Len(ExOut(k)) = 1
             /\ LET out == Rows(ExOut(k)[1])
                    left == AllRows(ExIn(k, 1))
                IN /\ Len(out) = Len(left)
                   /\ \A r \in DOMAIN out : PaddedWithNulls(out[r], left[r])

\* ------------------------------------------- Aggregate: aligned output rows

\* the cells one group gives to an output row: its captured group values (null
\* where the column's array type cannot hold the value) and its final states
GroupCellFits(cell, gv) == cell = GroupCell(gv) \/ cell = None
FinalValue(agg, state) == collect_agg_column(agg, <<state>>)[1]

RECURSIVE PostOrder(_)
PostOrder(plan) ==
    CASE plan.kind = "Scan" -> <<plan>>
      [] plan.kind = "Join" -> PostOrder(plan.left) \o PostOrder(plan.right) \o <<plan>>
      [] OTHER -> PostOrder(plan.input) \o <<plan>>

\* the child plans of a node, left before right
ChildPlans(plan) ==
    CASE plan.kind = "Scan" -> <<>>
      [] plan.kind = "Join" -> <<plan.left, plan.right>>
      [] OTHER -> <<plan.input>>

\* s is t with some elements left out
RECURSIVE IsSubseq(_, _)
IsSubseq(s, t) ==
    IF s = <<>> THEN TRUE
    ELSE IF t = <<>> THEN FALSE
    ELSE IF Head(s) = Head(t) THEN IsSubseq(Tail(s), Tail(t))
    ELSE IsSubseq(s, Tail(t))

\* the plans of the calls that returned so far, in the order they returned
ExCallPlans == [k \in DOMAIN ex_calls |-> ex_calls[k].plan]

\* the call on the whole plan returned
ExReturned == ex_frames = <<>> /\ ex_calls # <<>>

\* the calls return in post-order of the plan tree, each node at most once; a
\* call got each of its inputs from an earlier call on that child, in child
\* order; a call that returned batches had all its children return batches;
\* and when the whole execution returned batches every node was called once
ExecutesInPostOrder ==
    /\ IsSubseq(ExCallPlans, PostOrder(ex_plan.plan))
    /\ \A k \in DOMAIN ex_calls :
         /\ Len(ex_calls[k].inputs) <= Len(ChildPlans(ex_calls[k].plan))
         /\ \A i \in DOMAIN ex_calls[k].inputs :
              \E j \in 1..(k - 1) :
                 /\ ex_calls[j].plan = ChildPlans(ex_calls[k].plan)[i]
                 /\ ex_calls[j].result = ex_calls[k].inputs[i]
                 /\ \A i2 \in DOMAIN ex_calls[k].inputs : \A j2 \in 1..(k - 1) :
                      (i < i2 /\ ex_calls[j2].plan = ChildPlans(ex_calls[k].plan)[i2]
                              /\ ex_calls[j2].result = ex_calls[k].inputs[i2]
                              /\ ChildPlans(ex_calls[k].plan)[i] # ChildPlans(ex_calls[k].plan)[i2])
                         => j # j2
         /\ ex_calls[k].result.ok =>
              /\ Len(ex_calls[k].inputs) = Len(ChildPlans(ex_calls[k].plan))
              /\ \A i \in DOMAIN ex_calls[k].inputs : ex_calls[k].inputs[i].ok
    /\ (ExReturned /\ ex_runs[Len(ex_runs)].ok) => ExCallPlans = PostOrder(ex_plan.plan)

\* C30: for every finite plan tree a call of Executor.execute eventually
\* returns, and only after every child plan it needs was fully executed: each
\* node executes its children to completion before its own operator, a Join
\* its left child before its right child, and each plan node is visited once
\* per call.
C30_ExecuteTerminatesInPostOrder ==
    /\ []ExecutesInPostOrder
    /\ (pc = "running") ~> ExReturned
    /\ <>ExecDone

\* C30 witness: a Join over two sub-plans with children of their own returned
\* batches
C30_Witness ==
    /\ ExecDone /\ ExReturned
    /\ ex_plan.plan.kind = "Join"
    /\ ex_plan.plan.left.kind # "Scan" /\ ex_plan.plan.right.kind # "Scan"
    /\ ex_runs[2].ok
    /\ Len(ex_calls) = 5
    /\ ex_calls[2].plan = ex_plan.plan.left
    /\ ex_calls[4].plan = ex_plan.plan.right

====
